---------------------------- MODULE Spec2Model ----------------------------
(***************************************************************************)
(* Model of mucap's MidiStore (src/mucap/src/midistore.rs): the event log, *)
(* the note assembler (in-flight and completed notes) and the range cache, *)
(* and of the export of a time window as a MIDI file                       *)
(* (src/mucap/src/ui/miditransfer.rs).                                     *)
(*                                                                         *)
(* Representation.                                                         *)
(*  - f32 times are finite values, modelled as integers (seconds); the     *)
(*    comparisons of the code are the integer comparisons.  Where times    *)
(*    are converted to ticks (the export) the integers count units of      *)
(*    1 / TimeScale seconds and the arithmetic is exact.                   *)
(*  - u8/u7/u4 are naturals; a 3-byte message [u8; 3] is a 3-tuple.         *)
(*  - Option<T> is a sequence: None is << >>, Some(x) is <<x>>.             *)
(*  - Vec<T> is a sequence; indices kept by the code (idx_on, idx_off) are  *)
(*    the code's 0-based indices, so entry i of the log is store[i + 1].   *)
(*  - A (f32, StoreEntry) tuple is <<time, [channel, data]>>.               *)
(*  - A MidiMessage is a record [kind, key, vel]; for the kinds that are   *)
(*    not notes, key and vel hold the first and second data byte.          *)
(***************************************************************************)
EXTENDS Integers, Sequences, FiniteSets, TLC

(***************************************************************************)
(* Bounds of the model.                                                    *)
(***************************************************************************)
\* the longest event log explored
MaxLog == 4

\* times (seconds) of append calls: a negative one, and two that can tie or increase
Time == {-1, 0, 1}

\* a capture that is exported: times of the append calls, the times a
\* selection starts or ends at, and the tempo of the transport (bpm)
XTime == {1, 4}

XBounds == {1, 2, 3, 4}

Tempos == {60, 180}

\* pulses per quarter note of the exported file
ppqn == 480

\* time units per second in the export specifications
TimeScale == 3 * ppqn

Seconds(s) == s * TimeScale

\* the export scenario of two notes (0.0-3.0 and 4.0-6.0 s) and the window
\* [2.0, 5.0] s at tempo 120
DTime == {Seconds(0), Seconds(3), Seconds(4), Seconds(6)}

DBounds == {Seconds(2), Seconds(5)}

DTempos == {120}

\* the most bars a session records
MaxBars == 3

\* units per beat and per second where bars are tracked
BeatScale == 400

\* transport snapshots: bar starts at 0, 0.005, 0.01, 4 and 8 beats, taken at
\* the bar start or one beat into the bar
BarStarts == {0, 2, 4, 4 * BeatScale, 8 * BeatScale}

BeatsIntoBar == {0, BeatScale}

BarTempos == {120}

\* the times a bar is looked up for: 0 s, 0.0025 s and 2 s
QTimes == {0, 1, 2 * BeatScale}

\* the bar grid a lookup is restricted to: every bar, every second bar
Divisors == {1, 2}

\* the most zoom-control calls of a session of the note view
MaxOps == 4

\* ZoomOptions::default(): speed, and the smallest and largest zoomed range
\* in seconds; snap_range is 0.995
speed == 10

min_zoom == 10

max_zoom == 600

snap_range == <<995, 1000>>

\* scroll inputs as fractions: pan amounts -1, -1/5, 0, 1/5, 1; zoom factors
\* 1/2, 2 and 100
PanAmounts == {<<-1, 1>>, <<-1, 5>>, <<0, 1>>, <<1, 5>>, <<1, 1>>}

ZoomFactors == {<<1, 2>>, <<2, 1>>, <<100, 1>>}

\* the plugin clock the note view reads: 0 s and 600 s
TNow == {0, 600}

\* the frame time of the note view: 1/60 s
FrameTime == <<1, 60>>

\* the most messages the audio thread sends in a session with both threads
MaxSent == 3

\* time signatures of the transport
TimeSigs == {<<4, 4>>, <<3, 4>>}

(***************************************************************************)
(* State: the fields of MidiStore, the result of the last add call, and a  *)
(* second store that receives the same calls with every NoteOff replaced   *)
(* by a velocity-0 NoteOn.  Then the fields of MidiTransfers (midifile,    *)
(* clippy) with what its calls leave outside the process: the content of   *)
(* the system clipboard, the temporary files on disk, the number of        *)
(* temporary files created so far and what new_selection logged last.      *)
(* Then the bar fields of MidiStore and the last nearest_bar lookup of the *)
(* note view with its result.  Then the fields of the note view's          *)
(* ZoomControl (ranges are pairs of whole seconds) and the number of calls *)
(* it has taken.  Last the two threads that share the store behind its     *)
(* RwLock: the channel to the ingestion thread and the number of messages  *)
(* sent, the ingestion thread's position and its message, the lock         *)
(* (readers, writer, poisoned), the UI thread's position, whether its read *)
(* request is parked behind a waiting writer, the selection it exports,    *)
(* the store as the export found it and the parts of the track built so    *)
(* far.                                                                    *)
(***************************************************************************)
VARIABLES store, notes, in_flight, note_range_cache, time_range_cache, ret, twin,
          midifile, clippy, clipboard, disk, created, outcome,
          transport, last_bar, bars, nearest,
          available_time, cur_range, target_range, last_operation, zoom_ops,
          rx, sent, ingest, msg, readers, writer, poisoned,
          ui, ui_parked, selection, seen, parts

vars == <<store, notes, in_flight, note_range_cache, time_range_cache, ret, twin,
          midifile, clippy, clipboard, disk, created, outcome,
          transport, last_bar, bars, nearest,
          available_time, cur_range, target_range, last_operation, zoom_ops,
          rx, sent, ingest, msg, readers, writer, poisoned,
          ui, ui_parked, selection, seen, parts>>

store_vars == <<store, notes, in_flight, note_range_cache, time_range_cache, ret, twin>>

bar_vars == <<transport, last_bar, bars, nearest>>

transfer_vars == <<midifile, clippy, clipboard, disk, created, outcome>>

zoom_vars == <<available_time, cur_range, target_range, last_operation, zoom_ops>>

channel_vars == <<rx, sent>>

ingest_vars == <<ingest, msg>>

lock_vars == <<readers, writer, poisoned>>

ui_vars == <<ui, ui_parked, selection, seen, parts>>

thread_vars == <<channel_vars, ingest_vars, lock_vars, ui_vars>>

None == << >>
Some(x) == <<x>>

\* the MidiStore aggregate the methods take as &mut self
Self ==
    [store |-> store, notes |-> notes, in_flight |-> in_flight,
     note_range_cache |-> note_range_cache, time_range_cache |-> time_range_cache]

\* MidiStore::new
New ==
    [store |-> << >>, notes |-> << >>, in_flight |-> << >>,
     note_range_cache |-> None, time_range_cache |-> None]

(***************************************************************************)
(* Raw messages.                                                           *)
(***************************************************************************)
note_on(channel, key, vel) == <<144 + channel, key, vel>>

note_off(channel, key, vel) == <<128 + channel, key, vel>>

\* Control Change, channel 0, controller 7, value 64
ControlChange == <<176, 7, 64>>

\* System Realtime: timing clock
TimingClock == <<248, 0, 0>>

\* a data byte in the place of the status byte
BadStatus == <<60, 60, 100>>

\* the 3-byte messages append is called with: notes on three (channel, key)
\* pairs, the pair (0, 60) with two velocities and both closing forms, a
\* message that is no note, one that is no channel message, and three that
\* do not decode
Inputs ==
    { note_on(0, 60, 100), note_on(0, 60, 80), note_on(0, 64, 100), note_on(1, 60, 100),
      note_on(0, 60, 0), note_off(0, 60, 64),
      ControlChange, TimingClock, BadStatus,
      note_on(0, 128, 100), note_off(0, 60, 200) }

(***************************************************************************)
(* LiveEvent::parse of midly, as add uses it: the status byte selects the  *)
(* event class; the data bytes are taken up to the first byte above 127    *)
(* and a channel message needs as many as its kind has.                    *)
(***************************************************************************)
slice_from_int(raw) ==
    IF raw[1] > 127 THEN << >>
    ELSE IF raw[2] > 127 THEN <<raw[1]>>
    ELSE raw

msg_length(status) ==
    LET hi == status \div 16
    IN  IF hi \in {8, 9, 10, 11, 14} THEN 2
        ELSE IF hi \in {12, 13} THEN 1
        ELSE 0

MessageKind(status) ==
    LET hi == status \div 16
    IN  CASE hi = 8  -> "NoteOff"
          [] hi = 9  -> "NoteOn"
          [] hi = 10 -> "Aftertouch"
          [] hi = 11 -> "Controller"
          [] hi = 12 -> "ProgramChange"
          [] hi = 13 -> "ChannelAftertouch"
          [] OTHER   -> "PitchBend"

ParseError == [ok |-> FALSE, event |-> "Error", channel |-> 0,
               message |-> [kind |-> "None", key |-> 0, vel |-> 0]]

parse(data) ==
    LET status == data[1]
        d == slice_from_int(<<data[2], data[3]>>)
    IN  IF status < 128 THEN ParseError
        ELSE IF status <= 239 THEN
            IF Len(d) < msg_length(status) THEN ParseError
            ELSE [ok |-> TRUE, event |-> "Midi", channel |-> status % 16,
                  message |-> [kind |-> MessageKind(status),
                               key |-> d[1],
                               vel |-> IF msg_length(status) = 2 THEN d[2] ELSE 0]]
        ELSE [ok |-> TRUE,
              event |-> IF status >= 248 THEN "Realtime" ELSE "Common",
              channel |-> 0,
              message |-> [kind |-> "None", key |-> 0, vel |-> 0]]

(***************************************************************************)
(* MidiStore::update_ranges                                                *)
(***************************************************************************)
\* variant: the lower bounds are set by the first observation only
update_ranges_no_min(self, note, time) ==
    LET nr == IF self.note_range_cache # None
              THEN LET note_min == self.note_range_cache[1][1]
                       note_max == self.note_range_cache[1][2]
                   IN  IF note > note_max THEN Some(<<note_min, note>>)
                       ELSE self.note_range_cache
              ELSE Some(<<note, note>>)
        tr == IF self.time_range_cache # None
              THEN LET time_min == self.time_range_cache[1][1]
                       time_max == self.time_range_cache[1][2]
                   IN  IF time > time_max THEN Some(<<time_min, time>>)
                       ELSE self.time_range_cache
              ELSE Some(<<time, time>>)
    IN  [self EXCEPT !.note_range_cache = nr, !.time_range_cache = tr]

update_ranges(self, note, time) ==
    LET nr == IF self.note_range_cache # None
              THEN LET note_min == self.note_range_cache[1][1]
                       note_max == self.note_range_cache[1][2]
                   IN  IF note < note_min THEN Some(<<note, note_max>>)
                       ELSE IF note > note_max THEN Some(<<note_min, note>>)
                       ELSE self.note_range_cache
              ELSE Some(<<note, note>>)
        tr == IF self.time_range_cache # None
              THEN LET time_min == self.time_range_cache[1][1]
                       time_max == self.time_range_cache[1][2]
                   IN  IF time < time_min THEN Some(<<time, time_max>>)
                       ELSE IF time > time_max THEN Some(<<time_min, time>>)
                       ELSE self.time_range_cache
              ELSE Some(<<time, time>>)
    IN  [self EXCEPT !.note_range_cache = nr, !.time_range_cache = tr]

\* indices of the in-flight notes of (channel, key)
Matching(in_fl, channel, key) ==
    {i \in 1..Len(in_fl) : in_fl[i].key = key /\ in_fl[i].channel = channel}

\* position of the first in-flight note of (channel, key): filter(..).next()
First(S) == CHOOSE i \in S : \A j \in S : i <= j

\* Vec::remove(idx), idx 1-based here
Remove(seq, i) == SubSeq(seq, 1, i - 1) \o SubSeq(seq, i + 1, Len(seq))

(***************************************************************************)
(* MidiStore::add_on                                                       *)
(***************************************************************************)
\* variant: the new note is pushed even when the pair is already in flight
add_on_push(self, time, idx, channel, message) ==
    IF message.kind = "NoteOn"
    THEN LET new_note == [idx_on |-> idx, t_start |-> time, t_end |-> 0, idx_off |-> 0,
                          channel |-> channel, key |-> message.key, vel |-> message.vel]
         IN  [update_ranges(self, new_note.key, time)
                EXCEPT !.in_flight = Append(self.in_flight, new_note)]
    ELSE self

\* variant: a retrigger leaves the note already in flight as it is
add_on_keep(self, time, idx, channel, message) ==
    IF message.kind = "NoteOn"
    THEN LET new_note == [idx_on |-> idx, t_start |-> time, t_end |-> 0, idx_off |-> 0,
                          channel |-> channel, key |-> message.key, vel |-> message.vel]
             old == Matching(self.in_flight, channel, message.key)
         IN  IF old # {}
             THEN self
             ELSE [update_ranges(self, new_note.key, time)
                     EXCEPT !.in_flight = Append(self.in_flight, new_note)]
    ELSE self

\* variant: opening a note is not observed by the range cache
add_on_no_observe(self, time, idx, channel, message) ==
    IF message.kind = "NoteOn"
    THEN LET new_note == [idx_on |-> idx, t_start |-> time, t_end |-> 0, idx_off |-> 0,
                          channel |-> channel, key |-> message.key, vel |-> message.vel]
             old == Matching(self.in_flight, channel, message.key)
         IN  IF old # {}
             THEN [self EXCEPT !.in_flight[First(old)] = new_note]
             ELSE [self EXCEPT !.in_flight = Append(self.in_flight, new_note)]
    ELSE self

add_on(self, time, idx, channel, message) ==
    IF message.kind = "NoteOn"
    THEN LET new_note == [idx_on |-> idx, t_start |-> time, t_end |-> 0, idx_off |-> 0,
                          channel |-> channel, key |-> message.key, vel |-> message.vel]
             old == Matching(self.in_flight, channel, message.key)
         IN  IF old # {}
             THEN [self EXCEPT !.in_flight[First(old)] = new_note]
             ELSE [update_ranges(self, new_note.key, time)
                     EXCEPT !.in_flight = Append(self.in_flight, new_note)]
    ELSE self

(***************************************************************************)
(* MidiStore::add_off                                                      *)
(***************************************************************************)
\* the key add_off closes: Some(key) for NoteOff and velocity-0 NoteOn
off_key(message) ==
    IF message.kind = "NoteOff" THEN Some(message.key)
    ELSE IF message.kind = "NoteOn" /\ message.vel = 0 THEN Some(message.key)
    ELSE None

\* variant: the closed note stays in flight
add_off_keep(self, time, idx_off, channel, message) ==
    LET key == off_key(message)
    IN  IF key # None
        THEN LET found == Matching(self.in_flight, channel, key[1])
             IN  IF found # {}
                 THEN LET idx == First(found)
                          note == [self.in_flight[idx] EXCEPT !.idx_off = idx_off, !.t_end = time]
                          s2 == update_ranges(self, note.key, note.t_end)
                      IN  [s2 EXCEPT !.notes = Append(s2.notes, note)]
                 ELSE self
        ELSE self

\* variant: a close without a note in flight is observed by the range cache
add_off_observe(self, time, idx_off, channel, message) ==
    LET key == off_key(message)
    IN  IF key # None
        THEN LET found == Matching(self.in_flight, channel, key[1])
             IN  IF found # {}
                 THEN LET idx == First(found)
                          note == [self.in_flight[idx] EXCEPT !.idx_off = idx_off, !.t_end = time]
                          s1 == [self EXCEPT !.in_flight = Remove(self.in_flight, idx)]
                          s2 == update_ranges(s1, note.key, note.t_end)
                      IN  [s2 EXCEPT !.notes = Append(s2.notes, note)]
                 ELSE update_ranges(self, key[1], time)
        ELSE self

\* variant: a closed note is put in front of the completed notes
add_off_front(self, time, idx_off, channel, message) ==
    LET key == off_key(message)
    IN  IF key # None
        THEN LET found == Matching(self.in_flight, channel, key[1])
             IN  IF found # {}
                 THEN LET idx == First(found)
                          note == [self.in_flight[idx] EXCEPT !.idx_off = idx_off, !.t_end = time]
                          s1 == [self EXCEPT !.in_flight = Remove(self.in_flight, idx)]
                          s2 == update_ranges(s1, note.key, note.t_end)
                      IN  [s2 EXCEPT !.notes = <<note>> \o s2.notes]
                 ELSE self
        ELSE self

add_off(self, time, idx_off, channel, message) ==
    LET key == off_key(message)
    IN  IF key # None
        THEN LET found == Matching(self.in_flight, channel, key[1])
             IN  IF found # {}
                 THEN LET idx == First(found)
                          note == [self.in_flight[idx] EXCEPT !.idx_off = idx_off, !.t_end = time]
                          s1 == [self EXCEPT !.in_flight = Remove(self.in_flight, idx)]
                          s2 == update_ranges(s1, note.key, note.t_end)
                      IN  [s2 EXCEPT !.notes = Append(s2.notes, note)]
                 ELSE self
        ELSE self

(***************************************************************************)
(* MidiStore::add.  The result is [ret, self]: what add returns ("Ok" or   *)
(* the error) and the store it leaves.                                     *)
(***************************************************************************)
\* self.store.last().map(|e| e.0).unwrap_or(0.0)
last_time(self) ==
    IF self.store = << >> THEN 0 ELSE self.store[Len(self.store)][1]

\* variant: compares with the first entry of the log
order_violation_first(self, time) ==
    time < (IF self.store = << >> THEN 0 ELSE self.store[1][1])

\* variant: no ordering check
order_violation_never(self, time) == FALSE

\* the condition of the bail!("Later entry exists")
order_violation(self, time) == time < last_time(self)

\* variant: a message that is no note is observed by the range cache
dispatch_observe_all(self, time, channel, message) ==
    LET idx == Len(self.store) - 1
    IN  IF message.kind = "NoteOn" /\ message.vel = 0
        THEN add_off(self, time, idx, channel, message)
        ELSE IF message.kind = "NoteOn"
        THEN add_on(self, time, idx, channel, message)
        ELSE IF message.kind = "NoteOff"
        THEN add_off(self, time, idx, channel, message)
        ELSE update_ranges(self, message.key, time)

\* the match on the message after the push
\* variant: the index handed on is the log length, one past the new entry
dispatch_len_idx(self, time, channel, message) ==
    LET idx == Len(self.store)
    IN  IF message.kind = "NoteOn" /\ message.vel = 0
        THEN add_off(self, time, idx, channel, message)
        ELSE IF message.kind = "NoteOn"
        THEN add_on(self, time, idx, channel, message)
        ELSE IF message.kind = "NoteOff"
        THEN add_off(self, time, idx, channel, message)
        ELSE self

dispatch(self, time, channel, message) ==
    LET idx == Len(self.store) - 1
    IN  IF message.kind = "NoteOn" /\ message.vel = 0
        THEN add_off(self, time, idx, channel, message)
        ELSE IF message.kind = "NoteOn"
        THEN add_on(self, time, idx, channel, message)
        ELSE IF message.kind = "NoteOff"
        THEN add_off(self, time, idx, channel, message)
        ELSE self

\* variant: a velocity-0 NoteOn is handled as a NoteOn
add_vel0_on(self, time, data) ==
    IF order_violation(self, time) THEN [ret |-> "Later entry exists", self |-> self]
    ELSE LET ev == parse(data)
         IN  IF ~ev.ok THEN [ret |-> "ParseError", self |-> self]
             ELSE IF ev.event = "Midi"
             THEN LET entry == [channel |-> ev.channel, data |-> ev.message]
                      s1 == [self EXCEPT !.store = Append(self.store, <<time, entry>>)]
                      idx == Len(s1.store) - 1
                  IN  [ret |-> "Ok",
                       self |-> IF ev.message.kind = "NoteOn"
                                THEN add_on(s1, time, idx, ev.channel, ev.message)
                                ELSE IF ev.message.kind = "NoteOff"
                                THEN add_off(s1, time, idx, ev.channel, ev.message)
                                ELSE s1]
             ELSE [ret |-> "Ok", self |-> self]

\* variant: a message that does not parse is dropped without an error
add_swallow(self, time, data) ==
    IF order_violation(self, time) THEN [ret |-> "Later entry exists", self |-> self]
    ELSE LET ev == parse(data)
         IN  IF ev.ok /\ ev.event = "Midi"
             THEN LET entry == [channel |-> ev.channel, data |-> ev.message]
                      s1 == [self EXCEPT !.store = Append(self.store, <<time, entry>>)]
                  IN  [ret |-> "Ok", self |-> dispatch(s1, time, ev.channel, ev.message)]
             ELSE [ret |-> "Ok", self |-> self]

add(self, time, data) ==
    IF order_violation(self, time) THEN [ret |-> "Later entry exists", self |-> self]
    ELSE LET ev == parse(data)
         IN  IF ~ev.ok THEN [ret |-> "ParseError", self |-> self]
             ELSE IF ev.event = "Midi"
             THEN LET entry == [channel |-> ev.channel, data |-> ev.message]
                      s1 == [self EXCEPT !.store = Append(self.store, <<time, entry>>)]
                  IN  [ret |-> "Ok", self |-> dispatch(s1, time, ev.channel, ev.message)]
             ELSE [ret |-> "Ok", self |-> self]

(***************************************************************************)
(* The twin store's input: a NoteOff becomes a velocity-0 NoteOn on the    *)
(* same channel and key.                                                   *)
(***************************************************************************)
OffAsOn(data) ==
    LET ev == parse(data)
    IN  IF ev.ok /\ ev.event = "Midi" /\ ev.message.kind = "NoteOff"
        THEN note_on(ev.channel, ev.message.key, 0)
        ELSE data

(***************************************************************************)
(* Queries of the store.                                                   *)
(***************************************************************************)
\* f32::INFINITY: above every finite time of the model
INFINITY == 1 + CHOOSE m \in (Time \cup XTime \cup XBounds \cup DTime \cup DBounds) :
                    \A t \in (Time \cup XTime \cup XBounds \cup DTime \cup DBounds) : m >= t

\* variant: a note touching the window at a boundary overlaps it
notes_in_time_closed(self, t0, t1) ==
    SelectSeq(self.notes, LAMBDA note : (t0 <= note.t_end) /\ (t1 >= note.t_start))

\* self.notes.iter().filter(..)
notes_in_time(self, t0, t1) ==
    SelectSeq(self.notes, LAMBDA note : (t0 < note.t_end) /\ (t1 > note.t_start))

\* notes_in_time(t0, t1) mapped to (note, selected)
notes_in_time_select(self, t0, t1, sel_t0, sel_t1) ==
    LET found == notes_in_time(self, t0, t1)
    IN  [i \in 1..Len(found) |->
            <<found[i], sel_t0 < found[i].t_end /\ sel_t1 > found[i].t_start>>]

\* (idx, time, channel, message) of every log entry, idx 0-based
midi_events(self) ==
    [i \in 1..Len(self.store) |->
        <<i - 1, self.store[i][1], self.store[i][2].channel, self.store[i][2].data>>]

(***************************************************************************)
(* MidiTransfers::new_selection (src/mucap/src/ui/miditransfer.rs): the    *)
(* export of a time window as a MIDI file offered to the clipboard.        *)
(***************************************************************************)
\* f32::round of the quotient n / d (d > 0): half away from zero
Round(n, d) ==
    IF n >= 0 THEN (2 * n + d) \div (2 * d) ELSE -((2 * (-n) + d) \div (2 * d))

\* (dt * pps).round() as i64, pps = ppqn as f32 * (tempo as f32 / 60.)
quantize(dt, tempo) == Round(dt * ppqn * tempo, 60 * TimeScale)

\* `as u32` of an i64: the value itself, or 2^32 more for a negative one
as_u32(x) == IF x >= 0 THEN x ELSE x + 2147483647 + 2147483647 + 2

\* u28::new: the low 28 bits
u28_new(x) == x % 268435456

\* u32::saturating_sub
saturating_sub(x, y) == IF x >= y THEN x - y ELSE 0

\* TrackEvent { delta, kind: TrackEventKind::Midi { channel, message } }
MidiEvent(delta, channel, message) ==
    [delta |-> u28_new(delta), kind |-> "Midi", channel |-> channel, message |-> message]

\* TrackEvent { delta, kind: TrackEventKind::Meta(MetaMessage::EndOfTrack) }
EndOfTrack(delta) ==
    [delta |-> u28_new(delta), kind |-> "Meta", channel |-> 0,
     message |-> [kind |-> "EndOfTrack", key |-> 0, vel |-> 0]]

\* store.store.get(idx) of a 0-based idx
get(self, idx) ==
    IF idx + 1 \in DOMAIN self.store THEN Some(self.store[idx + 1]) ELSE None

\* variant: a note ending on tick 0 is re-issued too
hanging_with_tick0(self, t0, t1, tempo) ==
    LET found == notes_in_time_select(self, -INFINITY, INFINITY, t0, t1)
        out[i \in 0..Len(found)] ==
            IF i = 0 THEN << >>
            ELSE LET note == found[i][1]
                     sel == found[i][2]
                     end_tick == quantize(note.t_end - t0, tempo)
                     entry == get(self, note.idx_on)
                 IN  IF sel /\ note.t_start < t0 /\ end_tick >= 0 /\ entry # None
                     THEN Append(out[i - 1],
                                 MidiEvent(0, entry[1][2].channel, entry[1][2].data))
                     ELSE out[i - 1]
    IN  out[Len(found)]

\* lines 106-123: Note-Ons already active at start
hanging(self, t0, t1, tempo) ==
    LET found == notes_in_time_select(self, -INFINITY, INFINITY, t0, t1)
        out[i \in 0..Len(found)] ==
            IF i = 0 THEN << >>
            ELSE LET note == found[i][1]
                     sel == found[i][2]
                     end_tick == quantize(note.t_end - t0, tempo)
                     entry == get(self, note.idx_on)
                 IN  IF sel /\ note.t_start < t0 /\ end_tick > 0 /\ entry # None
                     THEN Append(out[i - 1],
                                 MidiEvent(0, entry[1][2].channel, entry[1][2].data))
                     ELSE out[i - 1]
    IN  out[Len(found)]

\* variant: an event at the start of the window is not written
walk_after_start(self, t0, t1, tempo) ==
    LET events == midi_events(self)
        out[i \in 0..Len(events)] ==
            IF i = 0 THEN [track |-> << >>, sum_delta |-> 0]
            ELSE LET time == events[i][2]
                     write == (time > t0) /\ (time <= t1)
                     best_track_quantized == quantize(time - t0, tempo)
                     delta == as_u32(best_track_quantized - out[i - 1].sum_delta)
                 IN  IF write
                     THEN [track |-> Append(out[i - 1].track,
                                            MidiEvent(delta, events[i][3], events[i][4])),
                           sum_delta |-> best_track_quantized]
                     ELSE out[i - 1]
    IN  out[Len(events)]

\* variant: the walk does not stop at the end of the window
walk_past_end(self, t0, t1, tempo) ==
    LET events == midi_events(self)
        out[i \in 0..Len(events)] ==
            IF i = 0 THEN [track |-> << >>, sum_delta |-> 0]
            ELSE LET time == events[i][2]
                     write == time >= t0
                     best_track_quantized == quantize(time - t0, tempo)
                     delta == as_u32(best_track_quantized - out[i - 1].sum_delta)
                 IN  IF write
                     THEN [track |-> Append(out[i - 1].track,
                                            MidiEvent(delta, events[i][3], events[i][4])),
                           sum_delta |-> best_track_quantized]
                     ELSE out[i - 1]
    IN  out[Len(events)]

\* lines 125-146: the walk of the log; the result is [track, sum_delta]
walk(self, t0, t1, tempo) ==
    LET events == midi_events(self)
        out[i \in 0..Len(events)] ==
            IF i = 0 THEN [track |-> << >>, sum_delta |-> 0]
            ELSE LET time == events[i][2]
                     write == (time >= t0) /\ (time <= t1)
                     best_track_quantized == quantize(time - t0, tempo)
                     delta == as_u32(best_track_quantized - out[i - 1].sum_delta)
                 IN  IF write
                     THEN [track |-> Append(out[i - 1].track,
                                            MidiEvent(delta, events[i][3], events[i][4])),
                           sum_delta |-> best_track_quantized]
                     ELSE out[i - 1]
    IN  out[Len(events)]

\* variant: the trailing delta reaches the end tick of the window
trailing_delta_full(t0, t1, tempo, sum_delta) ==
    as_u32(quantize(t1 - t0, tempo) - sum_delta)

\* lines 149-151: delta_end after the walk
trailing_delta(t0, t1, tempo, sum_delta) ==
    saturating_sub(as_u32(quantize(t1 - t0, tempo) - sum_delta), 1)

\* variant: every Note-Off of an incomplete note carries the trailing delta
incomplete_repeat(self, t0, t1, tempo, sum_delta) ==
    LET found == notes_in_time_select(self, -INFINITY, INFINITY, t0, t1)
        out[i \in 0..Len(found)] ==
            IF i = 0
            THEN [track |-> << >>, sum_delta |-> sum_delta,
                  delta_end |-> trailing_delta(t0, t1, tempo, sum_delta)]
            ELSE LET note == found[i][1]
                     sel == found[i][2]
                     entry == get(self, note.idx_off)
                     prev == out[i - 1]
                 IN  IF sel /\ note.t_end > t1 /\ entry # None
                     THEN [track |-> Append(prev.track,
                                 MidiEvent(prev.delta_end, entry[1][2].channel, entry[1][2].data)),
                           sum_delta |-> prev.sum_delta + prev.delta_end,
                           delta_end |-> prev.delta_end]
                     ELSE prev
    IN  out[Len(found)]

\* lines 172-188: Note-Offs of incomplete notes; the result is
\* [track, sum_delta, delta_end]
incomplete(self, t0, t1, tempo, sum_delta) ==
    LET found == notes_in_time_select(self, -INFINITY, INFINITY, t0, t1)
        out[i \in 0..Len(found)] ==
            IF i = 0
            THEN [track |-> << >>, sum_delta |-> sum_delta,
                  delta_end |-> trailing_delta(t0, t1, tempo, sum_delta)]
            ELSE LET note == found[i][1]
                     sel == found[i][2]
                     entry == get(self, note.idx_off)
                     prev == out[i - 1]
                 IN  IF sel /\ note.t_end > t1 /\ entry # None
                     THEN [track |-> Append(prev.track,
                                 MidiEvent(prev.delta_end, entry[1][2].channel, entry[1][2].data)),
                           sum_delta |-> prev.sum_delta + prev.delta_end,
                           delta_end |-> 0]
                     ELSE prev
    IN  out[Len(found)]

\* variant: End-of-Track always carries the trailing delta computed after the walk
build_smf_eot_trailing(self, t0, t1, tempo) ==
    LET on == hanging(self, t0, t1, tempo)
        w == walk(self, t0, t1, tempo)
        off == incomplete(self, t0, t1, tempo, w.sum_delta)
    IN  [format |-> "SingleTrack", timing |-> ppqn,
         tracks |-> <<on \o w.track \o off.track
                        \o <<EndOfTrack(trailing_delta(t0, t1, tempo, w.sum_delta))>> >>]

\* variant: the track starts with the tempo meta event (lines 99-104 enabled)
build_smf_with_tempo(self, t0, t1, tempo) ==
    LET on == hanging(self, t0, t1, tempo)
        w == walk(self, t0, t1, tempo)
        off == incomplete(self, t0, t1, tempo, w.sum_delta)
        tempo_event == [delta |-> 0, kind |-> "Meta", channel |-> 0,
                        message |-> [kind |-> "Tempo", key |-> 0, vel |-> 0]]
    IN  [format |-> "SingleTrack", timing |-> ppqn,
         tracks |-> << <<tempo_event>> \o on \o w.track \o off.track
                         \o <<EndOfTrack(off.delta_end)>> >>]

\* lines 88-212: the Smf built for the window
build_smf(self, t0, t1, tempo) ==
    LET on == hanging(self, t0, t1, tempo)
        w == walk(self, t0, t1, tempo)
        off == incomplete(self, t0, t1, tempo, w.sum_delta)
    IN  [format |-> "SingleTrack", timing |-> ppqn,
         tracks |-> <<on \o w.track \o off.track \o <<EndOfTrack(off.delta_end)>> >>]

\* the MidiTransfers aggregate and what it leaves outside the process
Transfers ==
    [midifile |-> midifile, clippy |-> clippy, clipboard |-> clipboard,
     disk |-> disk, created |-> created, outcome |-> outcome]

\* MidiTransfers::new, with an empty clipboard and no temporary file
NewTransfers ==
    [midifile |-> None, clippy |-> None, clipboard |-> None,
     disk |-> {}, created |-> 0, outcome |-> "None"]

\* what the environment does to one call: the step that fails, if any
IO == {"tempfile", "save", "Clipboard::new", "file_list", "ok"}

\* new_selection(t0, t1, transport) on the store self; a NamedTempFile that
\* goes out of scope is deleted from the disk
new_selection(mt, self, t0, t1, tempo, io) ==
    LET found == notes_in_time_select(self, -INFINITY, INFINITY, t0, t1)
        file == [path |-> mt.created, smf |-> build_smf(self, t0, t1, tempo)]
        made == [mt EXCEPT !.created = @ + 1]
        held == [made EXCEPT !.clippy = Some("Clipboard")]
    IN  IF Len(found) = 0
        THEN [mt EXCEPT !.outcome = "Empty selection, not exporting"]
        ELSE IF io = "tempfile"
        THEN [mt EXCEPT !.outcome = "Failed to create tmpfile"]
        ELSE IF io = "save"
        THEN [made EXCEPT !.outcome = "Error saving MIDI file"]
        ELSE IF mt.clippy = None /\ io = "Clipboard::new"
        THEN [made EXCEPT !.outcome = "Error acquiring clipboard"]
        ELSE IF io = "file_list"
        THEN [held EXCEPT !.outcome = "Failed to copy to clipboard"]
        ELSE [held EXCEPT !.midifile = Some(file),
                          !.clipboard = Some(<<file.path>>),
                          !.disk = (mt.disk \ {f \in mt.disk : mt.midifile = Some(f)})
                                       \cup {file},
                          !.outcome = "Copied path to clipboard"]

(***************************************************************************)
(* MidiStore::add_bar and the bar queries.  Beats and seconds are counted  *)
(* in units of 1 / BeatScale; the inputs keep the divisions exact.  A      *)
(* TransportInfo is [time, playing, tempo, time_sig, pos_beats,            *)
(* bar_start_pos_beats] (sample_rate and pos_samples are not read).        *)
(***************************************************************************)
\* the fields of MidiStore that add_bar takes as &mut self
BarSelf == [transport |-> transport, last_bar |-> last_bar, bars |-> bars]

\* TransportInfo::default()
DefaultTransport ==
    [time |-> 0, playing |-> FALSE, tempo |-> 0, time_sig |-> <<0, 0>>,
     pos_beats |-> 0, bar_start_pos_beats |-> 0]

\* MidiStore::new: no bars, no last bar
NewBars == [transport |-> DefaultTransport, last_bar |-> None, bars |-> << >>]

\* f32/f64 abs
abs(x) == IF x >= 0 THEN x ELSE -x

\* (x - last_bar).abs() < 0.01
same_bar(x, last) == abs(x - last) * 100 < BeatScale

\* time - (pos_beats - bar_start_pos_beats) * 60. / tempo
bar_time(tr) == tr.time - ((tr.pos_beats - tr.bar_start_pos_beats) * 60) \div tr.tempo

\* (bar_start_pos_beats / (4. * time_sig.0 / time_sig.1)).round() as i32
bar_number(tr) ==
    Round(tr.bar_start_pos_beats * tr.time_sig[2], 4 * tr.time_sig[1] * BeatScale)

\* variant: a stop keeps the last-bar memory
add_bar_keep_last(self, tr) ==
    LET s1 == [self EXCEPT !.transport = tr]
    IN  IF ~tr.playing
        THEN s1
        ELSE IF s1.last_bar # None /\ same_bar(tr.bar_start_pos_beats, s1.last_bar[1])
        THEN s1
        ELSE [s1 EXCEPT !.last_bar = Some(tr.bar_start_pos_beats),
                        !.bars = Append(s1.bars,
                                        [bar_number |-> bar_number(tr), t |-> bar_time(tr)])]

\* variant: a repeated snapshot moves the last-bar memory
add_bar_slide(self, tr) ==
    LET s1 == [self EXCEPT !.transport = tr]
    IN  IF ~tr.playing
        THEN [s1 EXCEPT !.last_bar = None]
        ELSE IF s1.last_bar # None /\ same_bar(tr.bar_start_pos_beats, s1.last_bar[1])
        THEN [s1 EXCEPT !.last_bar = Some(tr.bar_start_pos_beats)]
        ELSE [s1 EXCEPT !.last_bar = Some(tr.bar_start_pos_beats),
                        !.bars = Append(s1.bars,
                                        [bar_number |-> bar_number(tr), t |-> bar_time(tr)])]

\* variant: the bar is timed at the snapshot, not at its bar start
add_bar_at_snapshot(self, tr) ==
    LET s1 == [self EXCEPT !.transport = tr]
    IN  IF ~tr.playing
        THEN [s1 EXCEPT !.last_bar = None]
        ELSE IF s1.last_bar # None /\ same_bar(tr.bar_start_pos_beats, s1.last_bar[1])
        THEN s1
        ELSE [s1 EXCEPT !.last_bar = Some(tr.bar_start_pos_beats),
                        !.bars = Append(s1.bars,
                                        [bar_number |-> bar_number(tr), t |-> tr.time])]

\* MidiStore::add_bar
add_bar(self, tr) ==
    LET s1 == [self EXCEPT !.transport = tr]
    IN  IF ~tr.playing
        THEN [s1 EXCEPT !.last_bar = None]
        ELSE IF s1.last_bar # None /\ same_bar(tr.bar_start_pos_beats, s1.last_bar[1])
        THEN s1
        ELSE [s1 EXCEPT !.last_bar = Some(tr.bar_start_pos_beats),
                        !.bars = Append(s1.bars,
                                        [bar_number |-> bar_number(tr), t |-> bar_time(tr)])]

\* variant: every bar is a candidate, whatever its number
get_bars_all(self, n) == self.bars

\* MidiStore::get_bars: the bars whose number is a multiple of n, in list order
get_bars(self, n) == SelectSeq(self.bars, LAMBDA bar : bar.bar_number % n = 0)

\* variant: the reduction keeps the earlier bar when two are equally far
nearest_bar_first(self, time, n) ==
    LET it == get_bars(self, n)
        acc[i \in 1..Len(it)] ==
            IF i = 1 THEN it[1]
            ELSE IF abs(acc[i - 1].t - time) <= abs(it[i].t - time) THEN acc[i - 1] ELSE it[i]
    IN  IF Len(it) = 0 THEN None ELSE Some(acc[Len(it)])

\* MidiStore::nearest_bar: reduce keeps b1 only when it is strictly nearer
nearest_bar(self, time, n) ==
    LET it == get_bars(self, n)
        acc[i \in 1..Len(it)] ==
            IF i = 1 THEN it[1]
            ELSE IF abs(acc[i - 1].t - time) < abs(it[i].t - time) THEN acc[i - 1] ELSE it[i]
    IN  IF Len(it) = 0 THEN None ELSE Some(acc[Len(it)])

(***************************************************************************)
(* ZoomControl.  A range is a pair <<start, end>> of whole seconds; a      *)
(* product with a fraction is rounded to the nearest second.               *)
(***************************************************************************)
\* the ZoomControl the methods take as &mut self
ZoomSelf ==
    [available_time |-> available_time, cur_range |-> cur_range,
     target_range |-> target_range, last_operation |-> last_operation]

\* ZoomControl::default()
DefaultZoomControl ==
    [available_time |-> <<0, 30>>, cur_range |-> <<0, 30>>,
     target_range |-> <<0, 30>>, last_operation |-> "Pan"]

\* f32::max, f32::min, f32::clamp
max(x, y) == IF x >= y THEN x ELSE y

min(x, y) == IF x <= y THEN x ELSE y

clamp(x, lo, hi) == IF x < lo THEN lo ELSE IF x > hi THEN hi ELSE x

\* ZoomControl::update_time
update_time(self, available) ==
    LET t0 == self.target_range[1]
        t1 == self.target_range[2]
        \* lines 55-59
        a == IF t0 < available[1]
             THEN <<available[1], t1 + (available[1] - t0)>>
             ELSE <<t0, t1>>
        \* lines 61-65
        b == IF a[2] > available[2]
             THEN <<a[1] - (a[2] - available[2]), available[2]>>
             ELSE a
    IN  [self EXCEPT !.available_time = available,
                     !.target_range = <<max(b[1], available[1]), min(b[2], available[2])>>]

\* ZoomControl::update
update(self, dt) ==
    LET current_range == self.cur_range[2] - self.cur_range[1]
        position_offset == abs(self.cur_range[1] - self.target_range[1])
                               + abs(self.cur_range[2] - self.target_range[2])
        \* position_offset <= current_range * (1.0 - snap_range) + epsilon
        snap == position_offset * snap_range[2]
                    <= current_range * (snap_range[2] - snap_range[1])
        \* alpha = (speed * dt).min(1.0), as a fraction
        alpha == IF speed * dt[1] >= dt[2] THEN <<1, 1>> ELSE <<speed * dt[1], dt[2]>>
        step(from, to) == from + Round((to - from) * alpha[1], alpha[2])
    IN  IF snap
        THEN [self EXCEPT !.cur_range = self.target_range]
        ELSE [self EXCEPT !.cur_range = <<step(self.cur_range[1], self.target_range[1]),
                                          step(self.cur_range[2], self.target_range[2])>>]

\* variant: a zoom continues from the target of a pan in progress
zoom_keep_pan(self, factor, center) ==
    LET s1 == self
        cur_range_size == s1.cur_range[2] - s1.cur_range[1]
        center_in_target ==
            s1.target_range[1]
                + Round((center - s1.cur_range[1]) * (s1.target_range[2] - s1.target_range[1]),
                        cur_range_size)
        current_size == s1.target_range[2] - s1.target_range[1]
        new_size == clamp(Round(current_size * factor[1], factor[2]), min_zoom, max_zoom)
        size_diff == new_size - current_size
        new_start == s1.target_range[1]
                         - Round(size_diff * (center_in_target - s1.target_range[1]), current_size)
        new_end == new_start + new_size
        clamped_start == max(new_start, s1.available_time[1])
        clamped_end == min(new_end, s1.available_time[2])
    IN  [s1 EXCEPT !.target_range = <<clamped_start, clamped_end>>,
                   !.last_operation = "Zoom"]

\* ZoomControl::zoom
zoom(self, factor, center) ==
    LET s1 == IF self.last_operation = "Pan"
              THEN [self EXCEPT !.target_range = self.cur_range]
              ELSE self
        cur_range_size == s1.cur_range[2] - s1.cur_range[1]
        center_in_target ==
            s1.target_range[1]
                + Round((center - s1.cur_range[1]) * (s1.target_range[2] - s1.target_range[1]),
                        cur_range_size)
        current_size == s1.target_range[2] - s1.target_range[1]
        new_size == clamp(Round(current_size * factor[1], factor[2]), min_zoom, max_zoom)
        size_diff == new_size - current_size
        new_start == s1.target_range[1]
                         - Round(size_diff * (center_in_target - s1.target_range[1]), current_size)
        new_end == new_start + new_size
        clamped_start == max(new_start, s1.available_time[1])
        clamped_end == min(new_end, s1.available_time[2])
    IN  [s1 EXCEPT !.target_range = <<clamped_start, clamped_end>>,
                   !.last_operation = "Zoom"]

\* variant: a range pushed over a boundary is cut there, not moved back
pan_cut(self, amount) ==
    LET range_size == self.target_range[2] - self.target_range[1]
        pan_distance == Round(amount[1] * range_size, amount[2])
        new_start == self.target_range[1] + pan_distance
        new_end == self.target_range[2] + pan_distance
    IN  [self EXCEPT !.target_range = <<max(new_start, self.available_time[1]),
                                        min(new_end, self.available_time[2])>>,
                     !.last_operation = "Pan"]

\* ZoomControl::pan
pan(self, amount) ==
    LET range_size == self.target_range[2] - self.target_range[1]
        pan_distance == Round(amount[1] * range_size, amount[2])
        new_start == self.target_range[1] + pan_distance
        new_end == self.target_range[2] + pan_distance
        \* lines 133-137
        a == IF new_start < self.available_time[1]
             THEN <<self.available_time[1], new_end + (self.available_time[1] - new_start)>>
             ELSE <<new_start, new_end>>
        \* lines 139-143
        b == IF a[2] > self.available_time[2]
             THEN <<a[1] - (a[2] - self.available_time[2]), self.available_time[2]>>
             ELSE a
    IN  [self EXCEPT !.target_range = <<max(b[1], self.available_time[1]),
                                        min(b[2], self.available_time[2])>>,
                     !.last_operation = "Pan"]

(***************************************************************************)
(* The store behind Arc<RwLock<MidiStore>>.  std::sync::RwLock grants      *)
(* write access when no guard is held and read access when no writer holds *)
(* the lock; whether a read request made while a writer waits is granted   *)
(* or parked behind the writer is left to the platform.                    *)
(***************************************************************************)
\* variant: write access is granted while read guards are held
can_write_shared(held_readers, held_writer) == ~held_writer

\* RwLock::write returns: no read guard and no write guard is held
can_write(held_readers, held_writer) == held_readers = 0 /\ ~held_writer

\* RwLock::read can return: no write guard is held
can_read(held_writer) == ~held_writer

\* the parts of the track an export has built: nothing yet
NoParts == [on |-> << >>, w |-> [track |-> << >>, sum_delta |-> 0],
            off |-> [track |-> << >>, sum_delta |-> 0, delta_end |-> 0]]

\* lines 209-212: the Smf with the parts and the End-of-Track event
finish_smf(built) ==
    [format |-> "SingleTrack", timing |-> ppqn,
     tracks |-> <<built.on \o built.w.track \o built.off.track
                    \o <<EndOfTrack(built.off.delta_end)>> >>]

\* lines 81-84 and 213-242: the temporary file, the save and the clipboard
transfer(mt, smf, io) ==
    LET file == [path |-> mt.created, smf |-> smf]
        made == [mt EXCEPT !.created = @ + 1]
        held == [made EXCEPT !.clippy = Some("Clipboard")]
    IN  IF io = "tempfile"
        THEN [mt EXCEPT !.outcome = "Failed to create tmpfile"]
        ELSE IF io = "save"
        THEN [made EXCEPT !.outcome = "Error saving MIDI file"]
        ELSE IF mt.clippy = None /\ io = "Clipboard::new"
        THEN [made EXCEPT !.outcome = "Error acquiring clipboard"]
        ELSE IF io = "file_list"
        THEN [held EXCEPT !.outcome = "Failed to copy to clipboard"]
        ELSE [held EXCEPT !.midifile = Some(file),
                          !.clipboard = Some(<<file.path>>),
                          !.disk = (mt.disk \ {f \in mt.disk : mt.midifile = Some(f)})
                                       \cup {file},
                          !.outcome = "Copied path to clipboard"]

(***************************************************************************)
(* The specification: a caller appends messages to a new store.            *)
(***************************************************************************)
Init ==
    /\ store = New.store
    /\ notes = New.notes
    /\ in_flight = New.in_flight
    /\ note_range_cache = New.note_range_cache
    /\ time_range_cache = New.time_range_cache
    /\ ret = "None"
    /\ twin = New
    /\ midifile = NewTransfers.midifile
    /\ clippy = NewTransfers.clippy
    /\ clipboard = NewTransfers.clipboard
    /\ disk = NewTransfers.disk
    /\ created = NewTransfers.created
    /\ outcome = NewTransfers.outcome
    /\ transport = NewBars.transport
    /\ last_bar = NewBars.last_bar
    /\ bars = NewBars.bars
    /\ nearest = None
    /\ available_time = DefaultZoomControl.available_time
    /\ cur_range = DefaultZoomControl.cur_range
    /\ target_range = DefaultZoomControl.target_range
    /\ last_operation = DefaultZoomControl.last_operation
    /\ zoom_ops = 0
    /\ rx = << >>
    /\ sent = 0
    /\ ingest = "recv"
    /\ msg = None
    /\ readers = 0
    /\ writer = FALSE
    /\ poisoned = FALSE
    /\ ui = "idle"
    /\ ui_parked = FALSE
    /\ selection = None
    /\ seen = None
    /\ parts = NoParts

\* one call of add(time, data)
Add(time, data) ==
    /\ Len(store) < MaxLog
    /\ LET r == add(Self, time, data)
       IN  /\ store' = r.self.store
           /\ notes' = r.self.notes
           /\ in_flight' = r.self.in_flight
           /\ note_range_cache' = r.self.note_range_cache
           /\ time_range_cache' = r.self.time_range_cache
           /\ ret' = r.ret
    /\ twin' = add(twin, time, OffAsOn(data)).self
    /\ UNCHANGED <<transfer_vars, bar_vars, zoom_vars, thread_vars>>

Next == \E time \in Time, data \in Inputs : Add(time, data)

Spec == Init /\ [][Next]_vars

(***************************************************************************)
(* The export specification: a capture of two keys, and selections of the  *)
(* note view exported from it.                                             *)
(***************************************************************************)
\* the messages of the capture: two pairs that open and close
XInputs == {note_on(0, 60, 100), note_off(0, 60, 64), note_on(0, 64, 100), note_on(0, 64, 0)}

\* one call of new_selection(t0, t1, &store.transport): the selection the
\* session exports; the note view passes t0 < t1
NewSelection(t0, t1, tempo, io) ==
    /\ outcome = "None"
    /\ t0 < t1
    /\ \E r \in {new_selection(Transfers, Self, t0, t1, tempo, io)} :
           /\ midifile' = r.midifile
           /\ clippy' = r.clippy
           /\ clipboard' = r.clipboard
           /\ disk' = r.disk
           /\ created' = r.created
           /\ outcome' = r.outcome
    /\ UNCHANGED <<store_vars, bar_vars, zoom_vars, thread_vars>>

\* the capture: the producer's clock does not run backwards, and the
\* session captures until it exports
Capture(time, data) ==
    /\ outcome = "None"
    /\ ~order_violation(Self, time)
    /\ Add(time, data)

NextExport ==
    \/ \E time \in XTime, data \in XInputs : Capture(time, data)
    \/ \E t0 \in XBounds, t1 \in XBounds, tempo \in Tempos, io \in IO :
            NewSelection(t0, t1, tempo, io)

SpecExport == Init /\ [][NextExport]_vars

(***************************************************************************)
(* The bar specification: the host's transport snapshots reach add_bar.    *)
(***************************************************************************)
\* the snapshots of a transport whose time follows its position
Snapshots ==
    {[time |-> ((start + into) * 60) \div tempo, playing |-> playing, tempo |-> tempo,
      time_sig |-> sig, pos_beats |-> start + into, bar_start_pos_beats |-> start] :
        start \in BarStarts, into \in BeatsIntoBar, tempo \in BarTempos,
        sig \in TimeSigs, playing \in BOOLEAN}

\* one call of add_bar(transport)
AddBar(tr) ==
    /\ Len(bars) < MaxBars
    /\ \E r \in {add_bar(BarSelf, tr)} :
           /\ transport' = r.transport
           /\ last_bar' = r.last_bar
           /\ bars' = r.bars
    /\ UNCHANGED <<store_vars, transfer_vars, nearest, zoom_vars, thread_vars>>

\* the note view looks up the bar nearest to a time
NearestBar(time, n) ==
    /\ nearest' = Some([time |-> time, n |-> n, bar |-> nearest_bar(BarSelf, time, n)])
    /\ UNCHANGED <<store_vars, transfer_vars, transport, last_bar, bars, zoom_vars, thread_vars>>

NextBars ==
    \/ \E tr \in Snapshots : AddBar(tr)
    \/ \E time \in QTimes, n \in Divisors : NearestBar(time, n)

SpecBars == Init /\ [][NextBars]_vars

(***************************************************************************)
(* The zoom specification: the note view scrolls (pan, zoom) and redraws   *)
(* (update_time with the plugin clock, which does not run backwards, then  *)
(* update with the frame time).                                            *)
(***************************************************************************)
\* the zoom-control fields after a call
ZoomCall(r) ==
    /\ zoom_ops' = zoom_ops + 1
    /\ available_time' = r.available_time
    /\ cur_range' = r.cur_range
    /\ target_range' = r.target_range
    /\ last_operation' = r.last_operation
    /\ UNCHANGED <<store_vars, transfer_vars, bar_vars, thread_vars>>

\* the times the mouse can point at: the ends, the middle and the quarters
\* of the view
Centers == {cur_range[1] + (k * (cur_range[2] - cur_range[1])) \div 4 : k \in 0..4}

\* MouseScroll: a horizontal scroll, or a vertical one in pan mode
Pan(amount) ==
    /\ zoom_ops < MaxOps
    /\ ZoomCall(pan(ZoomSelf, amount))

\* MouseScroll: a vertical scroll in zoom mode
Zoom(factor, center) ==
    /\ zoom_ops < MaxOps
    /\ ZoomCall(zoom(ZoomSelf, factor, center))

\* NoteView::update: one frame
Frame(t_now) ==
    /\ zoom_ops < MaxOps
    /\ t_now + 30 >= available_time[2]
    /\ ZoomCall(update(update_time(ZoomSelf, <<0, t_now + 30>>), FrameTime))

NextZoom ==
    \/ \E amount \in PanAmounts : Pan(amount)
    \/ \E factor \in ZoomFactors, center \in Centers : Zoom(factor, center)
    \/ \E t_now \in TNow : Frame(t_now)

SpecZoom == Init /\ [][NextZoom]_vars

(***************************************************************************)
(* The thread specification: the audio thread sends messages over the      *)
(* channel, the ingestion thread applies them under the write lock, the UI *)
(* thread reads the store under the read lock: a query with a temporary    *)
(* guard, and the export of a selection on a mouse release, which takes a  *)
(* read guard in the handler and a second one in new_selection.            *)
(***************************************************************************)
\* what the audio thread sends: note messages in any order of time, a
\* message that does not parse, and a transport snapshot
TMessages ==
    {[kind |-> "MidiData", time |-> time, data |-> data] :
        time \in XTime, data \in {note_on(0, 60, 100), note_off(0, 60, 64), BadStatus}}
    \cup {[kind |-> "TransportInfo",
            tr |-> [DefaultTransport EXCEPT !.playing = TRUE, !.tempo = 60,
                                            !.time_sig = <<4, 4>>]]}

\* the selections of the note view
TSelections == {<<1, 4>>, <<2, 4>>}

\* process: tx.send(msg); the send fails, unnoticed, once the receiver is gone
Send(m) ==
    /\ sent < MaxSent
    /\ sent' = sent + 1
    /\ rx' = IF ingest = "panicked" THEN rx ELSE Append(rx, m)
    /\ UNCHANGED <<store_vars, transfer_vars, bar_vars, zoom_vars,
                   ingest_vars, lock_vars, ui_vars>>

\* StoreDeliveryTask::run: rx.recv()
Recv ==
    /\ ingest = "recv"
    /\ rx # << >>
    /\ msg' = Some(Head(rx))
    /\ rx' = Tail(rx)
    /\ ingest' = "write"
    /\ UNCHANGED <<store_vars, transfer_vars, bar_vars, zoom_vars, sent, lock_vars, ui_vars>>

\* self.store.write(): the guard, or the thread waits for it
Write ==
    /\ ingest \in {"write", "write_wait"}
    /\ IF can_write(readers, writer)
       THEN writer' = TRUE /\ ingest' = "writing"
       ELSE writer' = writer /\ ingest' = "write_wait"
    /\ ingest' # ingest
    /\ UNCHANGED <<store_vars, transfer_vars, bar_vars, zoom_vars, channel_vars, msg,
                   readers, poisoned, ui_vars>>

\* .unwrap().add(time, event).expect("Failed to add event"): the guard is
\* dropped at the end of the statement, or by the panic of expect
ApplyMidiData ==
    /\ ingest = "writing"
    /\ msg[1].kind = "MidiData"
    /\ \E r \in {add(Self, msg[1].time, msg[1].data)} :
           /\ store' = r.self.store
           /\ notes' = r.self.notes
           /\ in_flight' = r.self.in_flight
           /\ note_range_cache' = r.self.note_range_cache
           /\ time_range_cache' = r.self.time_range_cache
           /\ ret' = r.ret
           /\ ingest' = IF r.ret = "Ok" THEN "recv" ELSE "panicked"
           /\ poisoned' = (r.ret # "Ok")
    /\ twin' = add(twin, msg[1].time, OffAsOn(msg[1].data)).self
    /\ writer' = FALSE
    /\ msg' = None
    /\ UNCHANGED <<transfer_vars, bar_vars, zoom_vars, channel_vars, readers, ui_vars>>

\* .unwrap().add_bar(trx)
ApplyTransportInfo ==
    /\ ingest = "writing"
    /\ msg[1].kind = "TransportInfo"
    /\ Len(bars) < MaxBars
    /\ \E r \in {add_bar(BarSelf, msg[1].tr)} :
           /\ transport' = r.transport
           /\ last_bar' = r.last_bar
           /\ bars' = r.bars
    /\ writer' = FALSE
    /\ ingest' = "recv"
    /\ msg' = None
    /\ UNCHANGED <<store_vars, transfer_vars, nearest, zoom_vars, channel_vars,
                   readers, poisoned, ui_vars>>

\* the UI thread is at a call of self.store.read()
AtRead == ui \in {"query_read", "mouseup_read", "export_read"}

\* what follows each call of self.store.read()
AfterRead ==
    [query_read |-> "query", mouseup_read |-> "export_read", export_read |-> "select"]

\* draw, update, snap: a query of the store with a temporary guard
Query ==
    /\ ui = "idle"
    /\ ui' = "query_read"
    /\ UNCHANGED <<store_vars, transfer_vars, bar_vars, zoom_vars, channel_vars,
                   ingest_vars, lock_vars, ui_parked, selection, seen, parts>>

\* MouseUp with a selection: noteview.rs line 380
MouseUp(sel) ==
    /\ ui = "idle"
    /\ outcome = "None"
    /\ ui' = "mouseup_read"
    /\ selection' = Some(sel)
    /\ UNCHANGED <<store_vars, transfer_vars, bar_vars, zoom_vars, channel_vars,
                   ingest_vars, lock_vars, ui_parked, seen, parts>>

\* self.store.read() returns a guard; new_selection starts from the store
\* it finds
Read ==
    /\ AtRead
    /\ can_read(writer)
    /\ ~poisoned
    /\ ~(ui_parked /\ ingest = "write_wait")
    /\ readers' = readers + 1
    /\ ui' = AfterRead[ui]
    /\ ui_parked' = FALSE
    /\ seen' = IF ui = "export_read" THEN Some(Self) ELSE seen
    /\ UNCHANGED <<store_vars, transfer_vars, bar_vars, zoom_vars, channel_vars,
                   ingest_vars, writer, poisoned, selection, parts>>

\* self.store.read() while a writer waits: the request is parked behind it
ReadParks ==
    /\ AtRead
    /\ ~ui_parked
    /\ ingest = "write_wait"
    /\ ui_parked' = TRUE
    /\ UNCHANGED <<store_vars, transfer_vars, bar_vars, zoom_vars, channel_vars,
                   ingest_vars, lock_vars, ui, selection, seen, parts>>

\* self.store.read().unwrap() on a poisoned lock panics; the guards the
\* thread holds are dropped
ReadPoisoned ==
    /\ AtRead
    /\ can_read(writer)
    /\ poisoned
    /\ ui' = "panicked"
    /\ readers' = 0
    /\ ui_parked' = FALSE
    /\ UNCHANGED <<store_vars, transfer_vars, bar_vars, zoom_vars, channel_vars,
                   ingest_vars, writer, poisoned, selection, seen, parts>>

\* the end of the statement of a query drops its guard
QueryEnd ==
    /\ ui = "query"
    /\ readers' = readers - 1
    /\ ui' = "idle"
    /\ UNCHANGED <<store_vars, transfer_vars, bar_vars, zoom_vars, channel_vars,
                   ingest_vars, writer, poisoned, ui_parked, selection, seen, parts>>

\* new_selection lines 74-79: the emptiness test
ExportSelect ==
    /\ ui = "select"
    /\ IF Len(notes_in_time_select(Self, -INFINITY, INFINITY,
                                    selection[1][1], selection[1][2])) = 0
       THEN /\ outcome' = "Empty selection, not exporting"
            /\ ui' = "return"
       ELSE /\ outcome' = outcome
            /\ ui' = "hanging"
    /\ UNCHANGED <<store_vars, midifile, clippy, clipboard, disk, created, bar_vars,
                   zoom_vars, channel_vars, ingest_vars, lock_vars, ui_parked,
                   selection, seen, parts>>

\* new_selection lines 106-123, with the tempo of store.transport
ExportHanging ==
    /\ ui = "hanging"
    /\ parts' = [parts EXCEPT !.on = hanging(Self, selection[1][1], selection[1][2],
                                              transport.tempo)]
    /\ ui' = "walk"
    /\ UNCHANGED <<store_vars, transfer_vars, bar_vars, zoom_vars, channel_vars,
                   ingest_vars, lock_vars, ui_parked, selection, seen>>

\* new_selection lines 125-146
ExportWalk ==
    /\ ui = "walk"
    /\ parts' = [parts EXCEPT !.w = walk(Self, selection[1][1], selection[1][2],
                                          transport.tempo)]
    /\ ui' = "incomplete"
    /\ UNCHANGED <<store_vars, transfer_vars, bar_vars, zoom_vars, channel_vars,
                   ingest_vars, lock_vars, ui_parked, selection, seen>>

\* new_selection lines 149-188
ExportIncomplete ==
    /\ ui = "incomplete"
    /\ parts' = [parts EXCEPT !.off = incomplete(Self, selection[1][1], selection[1][2],
                                                  transport.tempo, parts.w.sum_delta)]
    /\ ui' = "finish"
    /\ UNCHANGED <<store_vars, transfer_vars, bar_vars, zoom_vars, channel_vars,
                   ingest_vars, lock_vars, ui_parked, selection, seen>>

\* new_selection lines 209-242 (and the temporary file of lines 81-84)
ExportFinish(io) ==
    /\ ui = "finish"
    /\ \E r \in {transfer(Transfers, finish_smf(parts), io)} :
           /\ midifile' = r.midifile
           /\ clippy' = r.clippy
           /\ clipboard' = r.clipboard
           /\ disk' = r.disk
           /\ created' = r.created
           /\ outcome' = r.outcome
    /\ ui' = "return"
    /\ UNCHANGED <<store_vars, bar_vars, zoom_vars, channel_vars, ingest_vars,
                   lock_vars, ui_parked, selection, seen, parts>>

\* new_selection returns and the handler ends: both guards are dropped
ExportReturn ==
    /\ ui = "return"
    /\ readers' = readers - 2
    /\ ui' = "idle"
    /\ seen' = None
    /\ UNCHANGED <<store_vars, transfer_vars, bar_vars, zoom_vars, channel_vars,
                   ingest_vars, writer, poisoned, ui_parked, selection, parts>>

NextThreads ==
    \/ \E m \in TMessages : Send(m)
    \/ Recv
    \/ Write
    \/ ApplyMidiData
    \/ ApplyTransportInfo
    \/ Query
    \/ \E sel \in TSelections : MouseUp(sel)
    \/ Read
    \/ ReadParks
    \/ ReadPoisoned
    \/ QueryEnd
    \/ ExportSelect
    \/ ExportHanging
    \/ ExportWalk
    \/ ExportIncomplete
    \/ \E io \in IO : ExportFinish(io)
    \/ ExportReturn

SpecThreads == Init /\ [][NextThreads]_vars

(***************************************************************************)
(* The scenario specification: a capture of two keys with every event      *)
(* later than the one before, and the export of the scenario's window.     *)
(***************************************************************************)
DInputs == {note_on(0, 60, 100), note_off(0, 60, 64), note_on(0, 64, 100), note_off(0, 64, 64)}

ScenarioCapture(time, data) ==
    /\ outcome = "None"
    /\ store = << >> \/ time > last_time(Self)
    /\ ~order_violation(Self, time)
    /\ Add(time, data)

NextScenario ==
    \/ \E time \in DTime, data \in DInputs : ScenarioCapture(time, data)
    \/ \E t0 \in DBounds, t1 \in DBounds, tempo \in DTempos, io \in IO :
            NewSelection(t0, t1, tempo, io)

SpecScenario == Init /\ [][NextScenario]_vars

(***************************************************************************)
(* Reading the event log as the history of the accepted appends.           *)
(***************************************************************************)
LogTime(i) == store[i][1]
LogChannel(i) == store[i][2].channel
LogMessage(i) == store[i][2].data

\* entry i of the log opens a note
IsOn(i) == LogMessage(i).kind = "NoteOn" /\ LogMessage(i).vel > 0

\* entry i of the log is a closing message
IsClose(i) ==
    \/ LogMessage(i).kind = "NoteOff"
    \/ LogMessage(i).kind = "NoteOn" /\ LogMessage(i).vel = 0

SamePair(i, j) ==
    LogChannel(i) = LogChannel(j) /\ LogMessage(i).key = LogMessage(j).key

\* no note message of the pair of i strictly between entries i and j
NoneBetween(i, j) ==
    \A k \in (i + 1)..(j - 1) : ~(SamePair(i, k) /\ (IsOn(k) \/ IsClose(k)))

\* the call add(time, data) passes the ordering check of the store as it is
InOrder(time) ==
    IF store = << >> THEN time >= 0 ELSE time >= store[Len(store)][1]

\* data decodes as a channel message: a status of 0x80..0xEF and data bytes
\* up to 0x7F, two of them unless the status is 0xCn or 0xDn
Decodes(data) ==
    /\ data[1] \in 128..239
    /\ data[2] <= 127
    /\ (data[3] <= 127 \/ data[1] \div 16 \in {12, 13})

\* data does not decode: no status byte, or a channel message short of data
Malformed(data) == data[1] < 128 \/ (data[1] <= 239 /\ ~Decodes(data))

IsOnData(data) == Decodes(data) /\ data[1] \div 16 = 9 /\ data[3] > 0

IsCloseData(data) ==
    Decodes(data) /\ (data[1] \div 16 = 8 \/ (data[1] \div 16 = 9 /\ data[3] = 0))

\* positions of the in-flight notes on the channel and key of data
InFlightOf(data) ==
    {i \in 1..Len(in_flight) :
        in_flight[i].channel = data[1] % 16 /\ in_flight[i].key = data[2]}

(***************************************************************************)
(* C1: after any sequence of add calls the in-flight collection holds at   *)
(* most one note per (channel, key) pair.                                  *)
(***************************************************************************)
C1_OneInFlightPerPair ==
    \A i, j \in 1..Len(in_flight) :
        (in_flight[i].channel = in_flight[j].channel /\ in_flight[i].key = in_flight[j].key)
            => i = j

\* a pair was retriggered while in flight, with another note in flight
C1_Witness ==
    /\ Len(in_flight) >= 2
    /\ \E i, j \in 1..Len(store) :
          i < j /\ IsOn(i) /\ IsOn(j) /\ SamePair(i, j) /\ NoneBetween(i, j)

(***************************************************************************)
(* C2: a NoteOn with velocity > 0 for a pair that is in flight replaces    *)
(* the note's start time, velocity and log index in place: the in-flight   *)
(* count and the other in-flight notes do not change, nothing is           *)
(* completed, and the next close of the pair completes exactly one note,   *)
(* with the later start time and velocity.  In every reachable state each  *)
(* completed note is the one opened by the last NoteOn before its close.   *)
(***************************************************************************)
C2_RetriggerReplaces ==
    /\ \A time \in Time, data \in Inputs :
          (IsOnData(data) /\ InFlightOf(data) # {} /\ InOrder(time)) =>
              LET r == add(Self, time, data)
                  p == CHOOSE i \in InFlightOf(data) : TRUE
                  replaced == [idx_on |-> Len(store), t_start |-> time, t_end |-> 0,
                               idx_off |-> 0, channel |-> data[1] % 16,
                               key |-> data[2], vel |-> data[3]]
              IN  /\ r.ret = "Ok"
                  /\ Len(r.self.in_flight) = Len(in_flight)
                  /\ r.self.notes = notes
                  /\ r.self.in_flight = [in_flight EXCEPT ![p] = replaced]
                  /\ \A t2 \in Time, c \in Inputs :
                        (IsCloseData(c) /\ c[1] % 16 = data[1] % 16 /\ c[2] = data[2]
                            /\ t2 >= time) =>
                            add(r.self, t2, c).self.notes =
                                Append(notes, [replaced EXCEPT !.t_end = t2,
                                                               !.idx_off = Len(store) + 1])
    /\ \A n \in 1..Len(notes) :
          LET on == notes[n].idx_on + 1
              off == notes[n].idx_off + 1
          IN  /\ on < off /\ off <= Len(store)
              /\ IsOn(on) /\ IsClose(off) /\ SamePair(on, off)
              /\ NoneBetween(on, off)
              /\ notes[n].t_start = LogTime(on) /\ notes[n].vel = LogMessage(on).vel
              /\ \A m \in 1..Len(notes) : notes[m].idx_off = notes[n].idx_off => m = n

\* a retriggered pair was closed: the completed note starts at the second NoteOn
C2_Witness ==
    \E i, j \in 1..Len(store), n \in 1..Len(notes) :
        /\ i < j /\ IsOn(i) /\ IsOn(j) /\ SamePair(i, j) /\ NoneBetween(i, j)
        /\ LogTime(i) < LogTime(j) /\ LogMessage(i).vel # LogMessage(j).vel
        /\ notes[n].idx_on = j - 1
        /\ notes[n].t_start = LogTime(j) /\ notes[n].vel = LogMessage(j).vel

(***************************************************************************)
(* C3: a NoteOff, and identically a velocity-0 NoteOn, for a pair that is  *)
(* in flight removes exactly that note from in-flight, sets its t_end to   *)
(* the call's time and its idx_off to the new log index and appends it to  *)
(* the completed notes; the other in-flight notes are unchanged.  The      *)
(* store fed with velocity-0 NoteOns in place of the NoteOffs has the same *)
(* completed notes, in-flight notes and range caches.                      *)
(***************************************************************************)
C3_CloseCompletes ==
    /\ \A time \in Time, data \in Inputs :
          (IsCloseData(data) /\ InFlightOf(data) # {} /\ InOrder(time)) =>
              LET r == add(Self, time, data)
                  p == CHOOSE i \in InFlightOf(data) : TRUE
              IN  /\ r.ret = "Ok"
                  /\ r.self.in_flight =
                        [k \in 1..(Len(in_flight) - 1) |->
                            IF k < p THEN in_flight[k] ELSE in_flight[k + 1]]
                  /\ r.self.notes =
                        Append(notes, [in_flight[p] EXCEPT !.t_end = time,
                                                           !.idx_off = Len(store)])
    /\ twin.notes = notes
    /\ twin.in_flight = in_flight
    /\ twin.note_range_cache = note_range_cache
    /\ twin.time_range_cache = time_range_cache

\* a NoteOff and a velocity-0 NoteOn each closed a note, and the twin's log differs
C3_Witness ==
    /\ twin.store # store
    /\ \E m, n \in 1..Len(notes) :
          /\ LogMessage(notes[m].idx_off + 1).kind = "NoteOff"
          /\ LogMessage(notes[n].idx_off + 1).kind = "NoteOn"
          /\ notes[n].t_end > notes[n].t_start

(***************************************************************************)
(* C4: an add whose time is strictly less than the time of the most        *)
(* recently appended event fails and leaves the event log, the completed   *)
(* notes, the in-flight notes and the range caches as they were.           *)
(***************************************************************************)
C4_OrderViolationUnchanged ==
    \A time \in Time, data \in Inputs :
        (store # << >> /\ time < store[Len(store)][1]) =>
            LET r == add(Self, time, data)
            IN  r.ret # "Ok" /\ r.self = Self

\* the last call was rejected for ordering on a store holding notes
C4_Witness ==
    /\ ret = "Later entry exists"
    /\ Len(store) >= 2 /\ notes # << >> /\ in_flight # << >>

(***************************************************************************)
(* C5: an add whose 3 bytes do not decode as a MIDI message fails and      *)
(* records nothing: log, completed notes, in-flight notes and range caches *)
(* are unchanged.                                                          *)
(***************************************************************************)
C5_ParseFailureUnchanged ==
    \A time \in Time, data \in Inputs :
        Malformed(data) =>
            LET r == add(Self, time, data)
            IN  r.ret # "Ok" /\ r.self = Self

\* the last call failed to decode, on a store holding notes
C5_Witness ==
    ret = "ParseError" /\ notes # << >> /\ in_flight # << >>

(***************************************************************************)
(* C6: after any sequence of add calls, successful or failed, the times of *)
(* the event log are non-decreasing in log order.                          *)
(***************************************************************************)
C6_LogTimesNonDecreasing ==
    \A i, j \in 1..Len(store) : i <= j => LogTime(i) <= LogTime(j)

\* the log holds a tie and an increase, and the last call was rejected
C6_Witness ==
    /\ ret = "Later entry exists"
    /\ \E i \in 1..(Len(store) - 1) : LogTime(i) = LogTime(i + 1)
    /\ \E i \in 1..(Len(store) - 1) : LogTime(i) < LogTime(i + 1)

(***************************************************************************)
(* C7: every add that returns success adds exactly one entry to the log,   *)
(* carrying the call's time and message; every add that fails adds none.   *)
(***************************************************************************)
C7_SuccessRecordsOne ==
    [][\A time \in Time, data \in Inputs :
          Add(time, data) =>
              /\ ret' = "Ok" =>
                    /\ Len(store') = Len(store) + 1
                    /\ store'[Len(store')][1] = time
                    /\ store'[Len(store')][2].channel = data[1] % 16
                    /\ store'[Len(store')][2].data.key = data[2]
                    /\ store'[Len(store')][2].data.vel = data[3]
              /\ ret' # "Ok" => store' = store]_vars

(***************************************************************************)
(* C8: add rejects a call for ordering exactly when its time is strictly   *)
(* less than the time of the most recently appended event; on an empty log *)
(* no time is rejected for ordering.                                       *)
(***************************************************************************)
C8_RejectsExactlyEarlier ==
    [][\A time \in Time, data \in Inputs :
          Add(time, data) =>
              (ret' = "Later entry exists"
                  <=> (store # << >> /\ time < store[Len(store)][1]))]_vars

(***************************************************************************)
(* C9: when every NoteOn with velocity > 0 of the log is followed by       *)
(* exactly one closing message of its pair before the next NoteOn of the   *)
(* pair, and every closing message follows such a NoteOn, the number of    *)
(* completed notes is the number of on/off pairs, nothing is in flight and *)
(* every completed note has t_end >= t_start.                              *)
(***************************************************************************)
WellPaired ==
    /\ \A i \in 1..Len(store) :
          IsOn(i) => \E j \in (i + 1)..Len(store) :
                        IsClose(j) /\ SamePair(i, j) /\ NoneBetween(i, j)
    /\ \A j \in 1..Len(store) :
          IsClose(j) => \E i \in 1..(j - 1) :
                           IsOn(i) /\ SamePair(i, j) /\ NoneBetween(i, j)

C9_PairsComplete ==
    WellPaired =>
        /\ Len(notes) = Cardinality({i \in 1..Len(store) : IsOn(i)})
        /\ in_flight = << >>
        /\ \A n \in 1..Len(notes) : notes[n].t_end >= notes[n].t_start

\* two on/off pairs, one with a positive and one with a zero duration
C9_Witness ==
    /\ WellPaired
    /\ Len(notes) = 2
    /\ \E n \in 1..Len(notes) : notes[n].t_end > notes[n].t_start
    /\ \E n \in 1..Len(notes) : notes[n].t_end = notes[n].t_start

(***************************************************************************)
(* C10: a NoteOff or velocity-0 NoteOn for a pair with no note in flight,  *)
(* in a call that passes the ordering check, is not an error: the call     *)
(* succeeds, the message is appended to the log, and the completed notes,  *)
(* the in-flight notes and the range caches are unchanged.                 *)
(***************************************************************************)
C10_DanglingCloseIsNoOp ==
    \A time \in Time, data \in Inputs :
        (IsCloseData(data) /\ InFlightOf(data) = {} /\ InOrder(time)) =>
            LET r == add(Self, time, data)
            IN  /\ r.ret = "Ok"
                /\ Len(r.self.store) = Len(store) + 1
                /\ SubSeq(r.self.store, 1, Len(store)) = store
                /\ r.self.store[Len(store) + 1][1] = time
                /\ r.self.store[Len(store) + 1][2].channel = data[1] % 16
                /\ r.self.store[Len(store) + 1][2].data.key = data[2]
                /\ r.self.store[Len(store) + 1][2].data.vel = data[3]
                /\ r.self.notes = notes
                /\ r.self.in_flight = in_flight
                /\ r.self.note_range_cache = note_range_cache
                /\ r.self.time_range_cache = time_range_cache

\* the last call appended a close that completed nothing, other notes present
C10_Witness ==
    /\ ret = "Ok"
    /\ store # << >> /\ IsClose(Len(store))
    /\ \A n \in 1..Len(notes) : notes[n].idx_off # Len(store) - 1
    /\ notes # << >> /\ in_flight # << >>


(***************************************************************************)
(* C11: a channel message that is neither NoteOn nor NoteOff, in a call    *)
(* that passes the ordering check, is appended to the log and changes      *)
(* nothing else: completed notes, in-flight notes and range caches stay.   *)
(***************************************************************************)
\* data decodes as a channel message that is no note
IsOtherData(data) == Decodes(data) /\ data[1] \div 16 \notin {8, 9}

C11_OtherMessageOnlyLogged ==
    \A time \in Time, data \in Inputs :
        (IsOtherData(data) /\ InOrder(time)) =>
            LET r == add(Self, time, data)
            IN  /\ r.ret = "Ok"
                /\ Len(r.self.store) = Len(store) + 1
                /\ SubSeq(r.self.store, 1, Len(store)) = store
                /\ r.self.store[Len(store) + 1][1] = time
                /\ r.self.store[Len(store) + 1][2].channel = data[1] % 16
                /\ r.self.store[Len(store) + 1][2].data.kind \notin {"NoteOn", "NoteOff"}
                /\ r.self.store[Len(store) + 1][2].data.key = data[2]
                /\ r.self.store[Len(store) + 1][2].data.vel = data[3]
                /\ r.self.notes = notes
                /\ r.self.in_flight = in_flight
                /\ r.self.note_range_cache = note_range_cache
                /\ r.self.time_range_cache = time_range_cache

\* the last call appended a Control Change to a store holding notes
C11_Witness ==
    /\ ret = "Ok"
    /\ store # << >> /\ LogMessage(Len(store)).kind = "Controller"
    /\ notes # << >> /\ in_flight # << >>

(***************************************************************************)
(* C13: note_range and time_range are absent in the initial state and stay *)
(* absent exactly until the first NoteOn with velocity > 0 is appended;    *)
(* from then on both are present.  Failed calls, dangling closes and       *)
(* messages that are no notes do not populate them.                        *)
(***************************************************************************)
\* MidiStore::note_range and MidiStore::time_range
note_range(self) == self.note_range_cache

time_range(self) == self.time_range_cache

InFlightAt(i) ==
    \E k \in 1..(i - 1) : IsOn(k) /\ SamePair(k, i) /\ NoneBetween(k, i)

\* the log entries update_ranges was called for
Observed ==
    {i \in 1..Len(store) : (IsOn(i) /\ ~InFlightAt(i)) \/ (IsClose(i) /\ InFlightAt(i))}

Min(S) == CHOOSE x \in S : \A y \in S : x <= y

Max(S) == CHOOSE x \in S : \A y \in S : x >= y

C12_NotesAppendOnly ==
    /\ [](\A i \in 1..(Len(notes) - 1) : notes[i].t_end <= notes[i + 1].t_end)
    /\ [][\/ /\ notes' = notes
             /\ ~(/\ Len(store') = Len(store) + 1
                  /\ \E k \in 1..Len(store) :
                        /\ IsOn(k)
                        /\ LogChannel(k) = store'[Len(store')][2].channel
                        /\ LogMessage(k).key = store'[Len(store')][2].data.key
                        /\ NoneBetween(k, Len(store) + 1)
                  /\ LET m == store'[Len(store')][2].data
                     IN  m.kind = "NoteOff" \/ (m.kind = "NoteOn" /\ m.vel = 0))
          \/ /\ Len(notes') = Len(notes) + 1
             /\ SubSeq(notes', 1, Len(notes)) = notes
             /\ Len(store') = Len(store) + 1
             /\ notes'[Len(notes')].idx_off = Len(store)
             /\ notes'[Len(notes')].t_end = store'[Len(store')][1]]_vars

\* two notes completed, the one that started later closed first
C12_Witness ==
    /\ Len(notes) = 2
    /\ notes[1].t_start > notes[2].t_start
    /\ notes[1].idx_off < notes[2].idx_off

(***************************************************************************)
(* C15: notes_in_time(t0, t1) returns exactly the completed notes with     *)
(* t0 < t_end and t1 > t_start, in the order of the completed list: a note *)
(* touching the window only at a boundary (t_end = t0 or t_start = t1) is  *)
(* excluded, and notes in flight are never returned.                       *)
(***************************************************************************)
Overlaps(note, t0, t1) == t0 < note.t_end /\ t1 > note.t_start

\* the k-th smallest element of a set of naturals
Kth(S, k) == CHOOSE i \in S : Cardinality({j \in S : j <= i}) = k

C15_NotesInTimeExactlyOverlapping ==
    \A t0 \in XBounds, t1 \in XBounds :
        LET found == notes_in_time(Self, t0, t1)
            idx == {i \in 1..Len(notes) : Overlaps(notes[i], t0, t1)}
        IN  /\ Len(found) = Cardinality(idx)
            /\ \A k \in 1..Len(found) : found[k] = notes[Kth(idx, k)]
            /\ \A k \in 1..Len(found) : found[k].t_end # t0 /\ found[k].t_start # t1
            /\ \A k \in 1..Len(found), j \in 1..Len(in_flight) : found[k] # in_flight[j]

\* one window returns a completed note while a note that started before the
\* end of the window is in flight; another window touches the note at its end
C15_Witness ==
    /\ \E t0 \in XBounds, t1 \in XBounds :
          /\ notes_in_time(Self, t0, t1) # << >>
          /\ \E j \in 1..Len(in_flight) : in_flight[j].t_start < t1
    /\ \E t0 \in XBounds, t1 \in XBounds, i \in 1..Len(notes) :
          /\ notes[i].t_end = t0 /\ notes[i].t_start < t1
          /\ notes_in_time(Self, t0, t1) = << >>


(***************************************************************************)
(* Reading an export: the windows the note view passes, and the ticks of   *)
(* the claims computed from their definition.                              *)
(***************************************************************************)
Windows == {w \in XBounds \X XBounds : w[1] < w[2]}

\* some completed or in-flight note passes the overlap test on its fields
SomeNoteOverlaps(t0, t1) ==
    \/ \E i \in 1..Len(notes) : Overlaps(notes[i], t0, t1)
    \/ \E j \in 1..Len(in_flight) : Overlaps(in_flight[j], t0, t1)

Abs(x) == IF x >= 0 THEN x ELSE -x

\* the integer nearest to n / d (d > 0), the one away from zero at a tie
Nearest(n, d) ==
    LET far == Abs(n) \div d + 1
    IN  CHOOSE k \in (-far)..far :
            \/ 2 * Abs(n - k * d) < d
            \/ 2 * Abs(n - k * d) = d /\ Abs(k) * d > Abs(n)

\* round(dt * pulsesPerSecond), pulsesPerSecond = 480 * tempo / 60
Tick(dt, tempo) == Nearest(dt * 480 * tempo, 60 * TimeScale)

(***************************************************************************)
(* C16: new_selection takes completed and in-flight notes as candidates:   *)
(* it aborts as an empty selection exactly when neither a completed nor an *)
(* in-flight note overlaps [t0, t1] under t0 < t_end /\ t1 > t_start.      *)
(***************************************************************************)
C16_AbortsIffNothingOverlaps ==
    \A w \in Windows, tempo \in Tempos, io \in IO :
        LET r == new_selection(Transfers, Self, w[1], w[2], tempo, io)
        IN  (r.outcome = "Empty selection, not exporting") <=> ~SomeNoteOverlaps(w[1], w[2])

(***************************************************************************)
(* C17: when no note overlaps the window the export aborts before any file *)
(* I/O: no temporary file is created, nothing is offered to the clipboard  *)
(* and the file held from a previous export is left unchanged.             *)
(***************************************************************************)
C17_EmptySelectionDoesNoIO ==
    \A w \in Windows, tempo \in Tempos, io \in IO :
        ~SomeNoteOverlaps(w[1], w[2]) =>
            LET r == new_selection(Transfers, Self, w[1], w[2], tempo, io)
            IN  /\ r.outcome = "Empty selection, not exporting"
                /\ r.created = created
                /\ r.disk = disk
                /\ r.clipboard = clipboard
                /\ r.midifile = midifile


(***************************************************************************)
(* The parts of an exported track, from the store and the window.          *)
(***************************************************************************)
\* the session has not exported yet: the state a call of new_selection
\* starts from (the store does not change during or after the call)
BeforeExport == outcome = "None"

\* the track new_selection builds for the window
Track(t0, t1, tempo) == build_smf(Self, t0, t1, tempo).tracks[1]

\* the session exported the window: the file held is the one built for it
Exported(t0, t1, tempo) ==
    /\ outcome = "Copied path to clipboard"
    /\ midifile # None
    /\ midifile[1].smf = build_smf(Self, t0, t1, tempo)
    /\ midifile[1] \in disk

\* completed notes overlapping the window that started before it and whose
\* clipped end tick is greater than 0
HangingIdx(t0, t1, tempo) ==
    {i \in 1..Len(notes) : /\ Overlaps(notes[i], t0, t1)
                           /\ notes[i].t_start < t0
                           /\ Tick(notes[i].t_end - t0, tempo) > 0}

\* log entries inside the window
WalkIdx(t0, t1) == {i \in 1..Len(store) : t0 <= LogTime(i) /\ LogTime(i) <= t1}

\* completed notes overlapping the window that end after it
IncompleteIdx(t0, t1) ==
    {i \in 1..Len(notes) : Overlaps(notes[i], t0, t1) /\ notes[i].t_end > t1}

\* the sum of the deltas of the first n events of a track
RECURSIVE SumDelta(_, _)
SumDelta(track, n) == IF n = 0 THEN 0 ELSE SumDelta(track, n - 1) + track[n].delta

(***************************************************************************)
(* C18: for every note overlapping the window with t_start < t0 the export *)
(* emits a delta-0 NoteOn copied from the note's NoteOn event iff its      *)
(* clipped end tick round((t_end - t0) * pulsesPerSecond) is greater than  *)
(* 0; the re-issued NoteOns come before every event of the walk of the     *)
(* log, and no NoteOn is re-issued for a note with t_start >= t0.          *)
(***************************************************************************)
C18_HangingNoteOns ==
    BeforeExport => \A w \in Windows, tempo \in Tempos :
        \A track \in {Track(w[1], w[2], tempo)} :
        LET H == HangingIdx(w[1], w[2], tempo)
            W == WalkIdx(w[1], w[2])
            h == Cardinality(H)
        IN  /\ Len(track) = h + Cardinality(W) + Cardinality(IncompleteIdx(w[1], w[2])) + 1
            /\ \A k \in 1..h :
                  LET on == notes[Kth(H, k)].idx_on + 1
                  IN  /\ IsOn(on)
                      /\ track[k] = [delta |-> 0, kind |-> "Midi",
                                     channel |-> LogChannel(on), message |-> LogMessage(on)]
            /\ \A k \in 1..Cardinality(W) :
                  /\ track[h + k].channel = LogChannel(Kth(W, k))
                  /\ track[h + k].message = LogMessage(Kth(W, k))

\* an export re-issued the NoteOn of a hanging note in front of events of the log
C18_Witness ==
    \E w \in Windows, tempo \in Tempos :
        /\ Exported(w[1], w[2], tempo)
        /\ HangingIdx(w[1], w[2], tempo) # {}
        /\ WalkIdx(w[1], w[2]) # {}

(***************************************************************************)
(* C19: the walk of the log emits exactly the log events with              *)
(* t0 <= time <= t1, in log order, each with delta =                       *)
(* round((time - t0) * pulsesPerSecond) minus the running tick, so the     *)
(* absolute tick of each emitted event is round((time - t0) *              *)
(* pulsesPerSecond); events before t0 or after t1 are not emitted.         *)
(***************************************************************************)
C19_WalkEmitsWindowEvents ==
    BeforeExport => \A w \in Windows, tempo \in Tempos :
        \A track \in {Track(w[1], w[2], tempo)}, r \in {walk(Self, w[1], w[2], tempo)} :
        LET W == WalkIdx(w[1], w[2])
            h == Cardinality(HangingIdx(w[1], w[2], tempo))
            tick(k) == Tick(LogTime(Kth(W, k)) - w[1], tempo)
        IN  /\ Len(r.track) = Cardinality(W)
            /\ r.sum_delta = (IF W = {} THEN 0 ELSE tick(Cardinality(W)))
            /\ SubSeq(track, h + 1, h + Cardinality(W)) = r.track
            /\ \A k \in 1..Cardinality(W) :
                  /\ track[h + k].kind = "Midi"
                  /\ track[h + k].channel = LogChannel(Kth(W, k))
                  /\ track[h + k].message = LogMessage(Kth(W, k))
                  /\ track[h + k].delta = tick(k) - (IF k = 1 THEN 0 ELSE tick(k - 1))
                  /\ SumDelta(track, h + k) = tick(k)

\* an export wrote two events at the end of its window, at a tick above 0,
\* and left out an event of the log before the window
C19_Witness ==
    \E w \in Windows, tempo \in Tempos :
        /\ Exported(w[1], w[2], tempo)
        /\ \E i, j \in WalkIdx(w[1], w[2]) :
              /\ i < j
              /\ LogTime(j) = w[2]
              /\ Tick(LogTime(j) - w[1], tempo) > 0
        /\ \E i \in 1..Len(store) : LogTime(i) < w[1]

(***************************************************************************)
(* C20: with endTick = round((t1 - t0) * pulsesPerSecond) and delta_end =  *)
(* max(0, endTick - runningTick - 1) after the walk, for every note        *)
(* overlapping the window with t_end > t1 a NoteOff copied from its        *)
(* closing event is emitted after the walk; the first has delta delta_end, *)
(* every further one delta 0, and the running tick advances by delta_end   *)
(* exactly once.                                                           *)
(***************************************************************************)
C20_IncompleteNoteOffs ==
    BeforeExport => \A w \in Windows, tempo \in Tempos :
        \A track \in {Track(w[1], w[2], tempo)} :
        LET W == WalkIdx(w[1], w[2])
            I == IncompleteIdx(w[1], w[2])
            done == Cardinality(HangingIdx(w[1], w[2], tempo)) + Cardinality(W)
            runningTick == IF W = {} THEN 0
                           ELSE Tick(LogTime(Kth(W, Cardinality(W))) - w[1], tempo)
            endTick == Tick(w[2] - w[1], tempo)
            delta_end == IF endTick - runningTick - 1 > 0
                         THEN endTick - runningTick - 1 ELSE 0
            r == incomplete(Self, w[1], w[2], tempo, runningTick)
        IN  /\ Len(track) = done + Cardinality(I) + 1
            /\ \A k \in 1..Cardinality(I) :
                  LET off == notes[Kth(I, k)].idx_off + 1
                  IN  /\ IsClose(off)
                      /\ track[done + k] =
                            [delta |-> (IF k = 1 THEN delta_end ELSE 0), kind |-> "Midi",
                             channel |-> LogChannel(off), message |-> LogMessage(off)]
            /\ r.sum_delta = runningTick + (IF I = {} THEN 0 ELSE delta_end)

\* an export closed two incomplete notes, the first after a positive delta
C20_Witness ==
    \E w \in Windows, tempo \in Tempos :
        /\ Exported(w[1], w[2], tempo)
        /\ Cardinality(IncompleteIdx(w[1], w[2])) >= 2
        /\ LET at == Cardinality(HangingIdx(w[1], w[2], tempo))
                        + Cardinality(WalkIdx(w[1], w[2])) + 1
           IN  midifile[1].smf.tracks[1][at].delta > 0


(***************************************************************************)
(* The end of an exported track.                                           *)
(***************************************************************************)
\* a call of new_selection starts here and gets past the emptiness test
BuildsTrack == BeforeExport /\ Len(notes_in_time(Self, -INFINITY, INFINITY)) # 0

\* the tick of the last log entry inside the window, 0 if there is none
RunningTick(t0, t1, tempo) ==
    LET W == WalkIdx(t0, t1)
    IN  IF W = {} THEN 0 ELSE Tick(LogTime(Kth(W, Cardinality(W))) - t0, tempo)

\* delta_end = max(0, endTick - runningTick - 1)
DeltaEnd(t0, t1, tempo) ==
    LET d == Tick(t1 - t0, tempo) - RunningTick(t0, t1, tempo) - 1
    IN  IF d > 0 THEN d ELSE 0

(***************************************************************************)
(* C21 as stated: the terminating End-of-Track event is emitted with delta *)
(* 0 if no NoteOff of an incomplete note was emitted, and with delta       *)
(* delta_end otherwise.                                                    *)
(***************************************************************************)
C21_EndOfTrackDeltaAsStated ==
    BuildsTrack => \A w \in Windows, tempo \in Tempos :
        \A track \in {Track(w[1], w[2], tempo)} :
            track[Len(track)].delta =
                (IF IncompleteIdx(w[1], w[2]) = {} THEN 0 ELSE DeltaEnd(w[1], w[2], tempo))

(***************************************************************************)
(* C21 amended: the terminating End-of-Track event is emitted with delta   *)
(* delta_end if no NoteOff of an incomplete note was emitted, and with     *)
(* delta 0 otherwise (the first such NoteOff has taken delta_end); either  *)
(* way the deltas of the track sum to runningTick + delta_end.             *)
(***************************************************************************)
C21_EndOfTrackDelta ==
    BuildsTrack => \A w \in Windows, tempo \in Tempos :
        \A track \in {Track(w[1], w[2], tempo)} :
            /\ track[Len(track)].kind = "Meta"
            /\ track[Len(track)].message.kind = "EndOfTrack"
            /\ track[Len(track)].delta =
                  (IF IncompleteIdx(w[1], w[2]) = {} THEN DeltaEnd(w[1], w[2], tempo) ELSE 0)
            /\ SumDelta(track, Len(track)) =
                  RunningTick(w[1], w[2], tempo) + DeltaEnd(w[1], w[2], tempo)

\* an export without incomplete notes ended its track after a positive delta
C21_Witness ==
    \E w \in Windows, tempo \in Tempos :
        /\ Exported(w[1], w[2], tempo)
        /\ IncompleteIdx(w[1], w[2]) = {}
        /\ LET track == midifile[1].smf.tracks[1]
           IN  track[Len(track)].delta > 0


(***************************************************************************)
(* C22: every export that produces output produces a format-0 file with    *)
(* exactly one track and a metrical division of 480 pulses per quarter     *)
(* note; the track holds no tempo meta event and exactly one End-of-Track  *)
(* event, which is its last event.                                         *)
(***************************************************************************)
\* the files an export has left: the one held and the ones on disk
Output == {f \in disk : TRUE} \cup {midifile[i] : i \in 1..Len(midifile)}

C22_SingleTrackFile ==
    \A f \in Output :
        /\ f.smf.format = "SingleTrack"
        /\ Len(f.smf.tracks) = 1
        /\ f.smf.timing = 480
        /\ LET track == f.smf.tracks[1]
           IN  /\ \A k \in 1..Len(track) :
                     ~(track[k].kind = "Meta" /\ track[k].message.kind = "Tempo")
               /\ {k \in 1..Len(track) : track[k].kind = "Meta"
                                           /\ track[k].message.kind = "EndOfTrack"}
                     = {Len(track)}

\* an export left a file with notes in its track
C22_Witness ==
    /\ outcome = "Copied path to clipboard"
    /\ \E f \in Output : Len(f.smf.tracks[1]) >= 4


(***************************************************************************)
(* C24: if acquiring the clipboard or the clipboard offer fails after the  *)
(* export file was saved, the file write is not undone: the saved file of  *)
(* this export remains on disk and is the file held after the call.        *)
(***************************************************************************)
C24_ClipboardFailureKeepsFile ==
    BuildsTrack => \A w \in Windows, tempo \in Tempos, io \in {"Clipboard::new", "file_list"} :
        \A r \in {new_selection(Transfers, Self, w[1], w[2], tempo, io)} :
            r.outcome \in {"Error acquiring clipboard", "Failed to copy to clipboard"} =>
                /\ r.midifile # None
                /\ r.midifile[1].smf = build_smf(Self, w[1], w[2], tempo)
                /\ r.midifile[1] \in r.disk

(***************************************************************************)
(* C25: new_selection pads the exported track so that its total length     *)
(* (the sum of all deltas up to End-of-Track) is a whole number of bars     *)
(* whenever the exported content does not already end on a bar boundary.   *)
(***************************************************************************)
\* (pps * transport.bar_length()).round(): 480 pulses per beat,
\* 4 * numerator / denominator beats per bar
BarLenPulses(sig) == Nearest(480 * 4 * sig[1], sig[2])

C25_PadsToBarBoundary ==
    BuildsTrack => \A w \in Windows, tempo \in Tempos, sig \in TimeSigs :
        \A track \in {Track(w[1], w[2], tempo)} :
            SumDelta(track, Len(track) - 1) % BarLenPulses(sig) # 0 =>
                SumDelta(track, Len(track)) % BarLenPulses(sig) = 0


(***************************************************************************)
(* C23: Scenario D.  With completed notes (0.0-3.0 s, key 60) and          *)
(* (4.0-6.0 s, key 64), window [2.0, 5.0] s and tempo 120 (960 pulses per  *)
(* second) the exported track is, in order: NoteOn(key 60) at tick 0,      *)
(* NoteOff(key 60) at tick 960, NoteOn(key 64) at tick 1920, a re-issued   *)
(* NoteOff(key 64) at the final tick of the window (2879, the tick before  *)
(* the end tick round(3.0 * 960)), then End-of-Track, and nothing else.    *)
(***************************************************************************)
\* the store of the scenario: the four events of the two notes
ScenarioD ==
    /\ Len(store) = 4 /\ Len(notes) = 2 /\ in_flight = << >>
    /\ notes[1].key = 60 /\ notes[1].t_start = Seconds(0) /\ notes[1].t_end = Seconds(3)
    /\ notes[2].key = 64 /\ notes[2].t_start = Seconds(4) /\ notes[2].t_end = Seconds(6)

WithinLastBar ==
    /\ last_bar # None
    /\ Abs(transport'.bar_start_pos_beats - last_bar[1]) * 100 < BeatScale

(***************************************************************************)
(* C26: a snapshot with playing = false is stored as the current           *)
(* transport, clears the last-bar memory and appends no Bar; so the first  *)
(* playing snapshot after a stop always appends a Bar, even when its       *)
(* bar_start_pos_beats is within 0.01 beats of the bar recorded before the *)
(* stop.                                                                   *)
(***************************************************************************)
C26_StopClearsLastBar ==
    /\ [](\A tr \in Snapshots :
            ~tr.playing => add_bar(BarSelf, tr) = [transport |-> tr, last_bar |-> None, bars |-> bars])
    /\ [][~transport'.playing => (last_bar' = None /\ bars' = bars)]_vars
    /\ [][(~transport.playing /\ transport'.playing) =>
              /\ bars' = Append(bars, bars'[Len(bars')])
              /\ last_bar' = Some(transport'.bar_start_pos_beats)]_vars

\* after a stop the bar start 0.005 beats was recorded next to the bar start 0
C26_Witness ==
    /\ transport.playing
    /\ last_bar = Some(2)
    /\ \E k \in 1..(Len(bars) - 1) : bars[k].t = 0 /\ bars[k + 1].t = 1

(***************************************************************************)
(* C27: while playing, a snapshot whose bar_start_pos_beats differs from   *)
(* the last recorded bar start by less than 0.01 beats appends no Bar and  *)
(* leaves the bar list and the last-bar memory unchanged; repeated         *)
(* snapshots within one bar yield exactly one Bar for that bar.            *)
(***************************************************************************)
C27_RepeatedSnapshotIsSkipped ==
    [][(transport'.playing /\ WithinLastBar) => (bars' = bars /\ last_bar' = last_bar)]_vars

\* a snapshot 0.005 beats from the recorded bar start was skipped
C27_Witness ==
    /\ transport.playing
    /\ last_bar # None
    /\ transport.bar_start_pos_beats # last_bar[1]
    /\ Len(bars) = 1

(***************************************************************************)
(* C28: while playing, a snapshot that is not de-duplicated appends        *)
(* exactly one Bar at the end of the bar list, with bar_number =           *)
(* round(bar_start_pos_beats / (4 * numerator / denominator)) and t =      *)
(* time - (pos_beats - bar_start_pos_beats) * 60 / tempo, and records      *)
(* bar_start_pos_beats as the last bar; earlier Bars are never changed.    *)
(* For tempo 120, 4/4 and bar starts 0, 4, 8 the bar numbers are 0, 1, 2   *)
(* and the bar times exactly 2.0 seconds apart.                            *)
(***************************************************************************)
\* a playing snapshot of the scenario: tempo 120, 4/4, the bar starting at beat
ScenarioSnapshot(beat, into) ==
    [time |-> ((beat * BeatScale + into) * 60) \div 120, playing |-> TRUE, tempo |-> 120,
     time_sig |-> <<4, 4>>, pos_beats |-> beat * BeatScale + into,
     bar_start_pos_beats |-> beat * BeatScale]

C28_BarAppended ==
    /\ [][(transport'.playing /\ ~WithinLastBar) =>
              /\ Len(bars') = Len(bars) + 1
              /\ SubSeq(bars', 1, Len(bars)) = bars
              /\ LET tr == transport'
                     bar == bars'[Len(bars')]
                 IN  /\ bar.bar_number =
                            Nearest(tr.bar_start_pos_beats * tr.time_sig[2],
                                    4 * tr.time_sig[1] * BeatScale)
                     /\ bar.t * tr.tempo =
                            tr.time * tr.tempo - (tr.pos_beats - tr.bar_start_pos_beats) * 60
              /\ last_bar' = Some(transport'.bar_start_pos_beats)]_vars
    /\ [][Len(bars') >= Len(bars) /\ SubSeq(bars', 1, Len(bars)) = bars]_vars
    /\ \A i0 \in BeatsIntoBar, i4 \in BeatsIntoBar, i8 \in BeatsIntoBar :
          \A r \in {add_bar(add_bar(add_bar(NewBars, ScenarioSnapshot(0, i0)),
                                    ScenarioSnapshot(4, i4)), ScenarioSnapshot(8, i8))} :
              /\ Len(r.bars) = 3
              /\ \A k \in 1..3 : r.bars[k].bar_number = k - 1
              /\ r.bars[2].t - r.bars[1].t = 2 * BeatScale
              /\ r.bars[3].t - r.bars[2].t = 2 * BeatScale

\* the bars 0, 1, 2 of the scenario were recorded, the last one from a
\* snapshot taken inside its bar
C28_Witness ==
    /\ Len(bars) = 3
    /\ \A k \in 1..3 : bars[k].bar_number = k - 1 /\ bars[k].t = (k - 1) * 2 * BeatScale
    /\ transport.time_sig = <<4, 4>>
    /\ transport.pos_beats > transport.bar_start_pos_beats


(***************************************************************************)
(* Reading a lookup: the positions of the bars on the grid n, and those    *)
(* of them no other bar of the grid is nearer to the time than.            *)
(***************************************************************************)
OnGrid(n) == {i \in 1..Len(bars) : bars[i].bar_number % n = 0}

Closest(time, n) ==
    {i \in OnGrid(n) : \A j \in OnGrid(n) : Abs(bars[i].t - time) <= Abs(bars[j].t - time)}

(***************************************************************************)
(* C29: nearest_bar(time, n) considers exactly the bars whose bar_number   *)
(* is divisible by n and returns one whose |t - time| is minimal among     *)
(* them; it returns none exactly when no bar has a number divisible by n.  *)
(***************************************************************************)
C29_NearestBarIsClosestOnGrid ==
    \A time \in QTimes, n \in Divisors :
        \A r \in {nearest_bar(BarSelf, time, n)} :
            /\ (r = None) <=> (OnGrid(n) = {})
            /\ r # None => \E i \in Closest(time, n) : r[1] = bars[i]

\* a lookup on the grid of every second bar passed over a nearer odd bar
C29_Witness ==
    /\ nearest # None
    /\ nearest[1].n = 2
    /\ nearest[1].bar = nearest_bar(BarSelf, nearest[1].time, 2)
    /\ nearest[1].bar # None
    /\ \E j \in 1..Len(bars) :
           /\ j \notin OnGrid(2)
           /\ Abs(bars[j].t - nearest[1].time) < Abs(nearest[1].bar[1].t - nearest[1].time)

(***************************************************************************)
(* C30, as stated: when several bars on the grid are equally near, the     *)
(* lookup returns the one that comes first in list order.                  *)
(***************************************************************************)
C30_FirstClosestWinsAsStated ==
    \A time \in QTimes, n \in Divisors :
        \A r \in {nearest_bar(BarSelf, time, n)} :
            r # None => r[1] = bars[Min(Closest(time, n))]

(***************************************************************************)
(* C30, amended: when several bars on the grid are equally near, the       *)
(* lookup returns the one that comes last in list order.                   *)
(***************************************************************************)
C30_LastClosestWins ==
    \A time \in QTimes, n \in Divisors :
        \A r \in {nearest_bar(BarSelf, time, n)} :
            r # None => r[1] = bars[Max(Closest(time, n))]

\* a lookup midway between two different bars returned the later one
C30_Witness ==
    /\ nearest # None
    /\ nearest[1].bar = nearest_bar(BarSelf, nearest[1].time, nearest[1].n)
    /\ \E i \in Closest(nearest[1].time, nearest[1].n), j \in Closest(nearest[1].time, nearest[1].n) :
           /\ i < j
           /\ bars[i] # bars[j]
           /\ nearest[1].bar = Some(bars[j])


(***************************************************************************)
(* C36: after any sequence of appends the cached ranges cover every note   *)
(* the store holds: the key of every completed and every in-flight note    *)
(* lies within the cached key range, and t_start of every completed and    *)
(* every in-flight note, and t_end of every completed note, lie within the *)
(* cached time range.                                                      *)
(***************************************************************************)
KeyCovered(key) ==
    /\ note_range_cache # None
    /\ note_range_cache[1][1] <= key /\ key <= note_range_cache[1][2]

TimeCovered(time) ==
    /\ time_range_cache # None
    /\ time_range_cache[1][1] <= time /\ time <= time_range_cache[1][2]

C36_RangesCoverEveryNote ==
    /\ \A k \in 1..Len(notes) :
           /\ KeyCovered(notes[k].key)
           /\ TimeCovered(notes[k].t_start)
           /\ TimeCovered(notes[k].t_end)
    /\ \A k \in 1..Len(in_flight) :
           /\ KeyCovered(in_flight[k].key)
           /\ TimeCovered(in_flight[k].t_start)

(***************************************************************************)
(* C37: after any sequence of appends every note refers to the events that *)
(* made it.  For every completed note idx_on < idx_off < log length,       *)
(* log[idx_on] is a NoteOn with velocity > 0 on the note's channel and key *)
(* with the note's velocity and time t_start, and log[idx_off] is a        *)
(* NoteOff or velocity-0 NoteOn on the same channel and key with time      *)
(* t_end; for every in-flight note idx_on refers to its NoteOn likewise.   *)
(***************************************************************************)
\* entry idx (counted from 0) of the log is the NoteOn of the note
RefersToOn(note, idx) ==
    /\ 0 <= idx /\ idx < Len(store)
    /\ IsOn(idx + 1)
    /\ LogChannel(idx + 1) = note.channel
    /\ LogMessage(idx + 1).key = note.key
    /\ LogMessage(idx + 1).vel = note.vel
    /\ LogTime(idx + 1) = note.t_start

\* entry idx (counted from 0) of the log is the closing event of the note
RefersToClose(note, idx) ==
    /\ 0 <= idx /\ idx < Len(store)
    /\ IsClose(idx + 1)
    /\ LogChannel(idx + 1) = note.channel
    /\ LogMessage(idx + 1).key = note.key
    /\ LogTime(idx + 1) = note.t_end

C37_NotesReferToTheirEvents ==
    /\ \A k \in 1..Len(notes) :
           /\ notes[k].idx_on < notes[k].idx_off
           /\ RefersToOn(notes[k], notes[k].idx_on)
           /\ RefersToClose(notes[k], notes[k].idx_off)
    /\ \A k \in 1..Len(in_flight) : RefersToOn(in_flight[k], in_flight[k].idx_on)

\* a completed note made by a retriggering NoteOn and a velocity-0 NoteOn,
\* next to a note in flight
C37_Witness ==
    /\ \E k \in 1..Len(notes) :
           /\ notes[k].idx_on > 0
           /\ LogMessage(notes[k].idx_off + 1).kind = "NoteOn"
           /\ \E i \in 1..notes[k].idx_on : IsOn(i) /\ SamePair(i, notes[k].idx_on + 1)
    /\ Len(in_flight) > 0


(***************************************************************************)
(* C38: for any store reachable through append and any window with         *)
(* t0 <= t1 the quantized tick never regresses during an export: every     *)
(* delta computed in the walk of the log is >= 0 (the "delta moving        *)
(* backwards" diagnostic is never reached), and after the walk endTick >=  *)
(* runningTick, so no delta written to the track results from a negative   *)
(* difference.                                                             *)
(***************************************************************************)
ClosedWindows == {w \in XBounds \X XBounds : w[1] <= w[2]}

C38_TickNeverRegresses ==
    BeforeExport => \A w \in ClosedWindows, tempo \in Tempos :
        \A r \in {walk(Self, w[1], w[2], tempo)} :
        LET W == WalkIdx(w[1], w[2])
            tick(k) == IF k = 0 THEN 0 ELSE Tick(LogTime(Kth(W, k)) - w[1], tempo)
            endTick == Tick(w[2] - w[1], tempo)
        IN  /\ \A k \in 1..Cardinality(W) :
                  /\ tick(k) >= tick(k - 1)
                  /\ r.track[k].delta = tick(k) - tick(k - 1)
            /\ endTick >= r.sum_delta
            /\ \A k \in 1..Len(r.track) : r.track[k].delta <= endTick
            /\ trailing_delta(w[1], w[2], tempo, r.sum_delta) <= endTick

\* an export walked over events at different ticks of its window
C38_Witness ==
    \E w \in Windows, tempo \in Tempos :
        /\ Exported(w[1], w[2], tempo)
        /\ \E i, j \in WalkIdx(w[1], w[2]) :
              /\ i < j
              /\ Tick(LogTime(i) - w[1], tempo) < Tick(LogTime(j) - w[1], tempo)

(***************************************************************************)
(* Reading a track: its note events.                                       *)
(***************************************************************************)
IsTrackOn(ev) == ev.kind = "Midi" /\ ev.message.kind = "NoteOn" /\ ev.message.vel > 0

IsTrackClose(ev) ==
    /\ ev.kind = "Midi"
    /\ \/ ev.message.kind = "NoteOff"
       \/ ev.message.kind = "NoteOn" /\ ev.message.vel = 0

SameTrackPair(e1, e2) == e1.channel = e2.channel /\ e1.message.key = e2.message.key

(***************************************************************************)
(* C39: every NoteOn with velocity > 0 in an exported track is followed,   *)
(* later in the same track, by a closing event (NoteOff or velocity-0      *)
(* NoteOn) for the same channel and key: no export leaves a note sounding  *)
(* at End-of-Track, whatever the store holds (notes in flight and notes    *)
(* starting exactly at t1 included) and whatever the window.               *)
(***************************************************************************)
C39_EveryNoteOnIsClosed ==
    BuildsTrack => \A w \in Windows, tempo \in Tempos :
        \A track \in {Track(w[1], w[2], tempo)} :
            \A i \in 1..Len(track) :
                IsTrackOn(track[i]) =>
                    \E j \in (i + 1)..Len(track) :
                        IsTrackClose(track[j]) /\ SameTrackPair(track[i], track[j])

(***************************************************************************)
(* C40: in every exported track the closing event of each completed note   *)
(* that overlaps the window is preceded in the track by a NoteOn for the   *)
(* same channel and key (the raw NoteOn inside the window or the one       *)
(* re-issued at tick 0), hanging notes whose clipped end tick is 0         *)
(* included.                                                               *)
(***************************************************************************)
\* the number of elements of S up to x
Rank(S, x) == Cardinality({y \in S : y <= x})

\* the position in the track of the closing event of completed note k, which
\* overlaps the window: in the walk if it ends inside, after it otherwise
ClosePos(k, t0, t1, tempo) ==
    LET h == Cardinality(HangingIdx(t0, t1, tempo))
        W == WalkIdx(t0, t1)
    IN  IF notes[k].t_end <= t1
        THEN h + Rank(W, notes[k].idx_off + 1)
        ELSE h + Cardinality(W) + Rank(IncompleteIdx(t0, t1), k)

C40_CloseIsPrecededByNoteOn ==
    BuildsTrack => \A w \in Windows, tempo \in Tempos :
        \A track \in {Track(w[1], w[2], tempo)} :
            \A k \in 1..Len(notes) :
                Overlaps(notes[k], w[1], w[2]) =>
                    \A p \in {ClosePos(k, w[1], w[2], tempo)} :
                        /\ IsTrackClose(track[p])
                        /\ track[p].channel = notes[k].channel
                        /\ track[p].message.key = notes[k].key
                        /\ \E i \in 1..(p - 1) :
                               IsTrackOn(track[i]) /\ SameTrackPair(track[i], track[p])


(***************************************************************************)
(* Reading a range: its size, and whether it lies inside another.          *)
(***************************************************************************)
Size(range) == range[2] - range[1]

Inside(range, outer) == outer[1] <= range[1] /\ range[1] <= range[2] /\ range[2] <= outer[2]

(***************************************************************************)
(* C34: pan(amount) keeps the target range inside available_time and,      *)
(* whenever the target size does not exceed the available span, preserves  *)
(* the size of the target range exactly; pan(0), and a pan against a       *)
(* boundary the target range already touches, leave the target range       *)
(* unchanged.  pan never changes cur_range.                                *)
(***************************************************************************)
C34_PanKeepsSizeInsideAvailable ==
    \A amount \in PanAmounts :
        \A r \in {pan(ZoomSelf, amount)} :
            /\ Inside(r.target_range, available_time)
            /\ Size(target_range) <= Size(available_time) =>
                   Size(r.target_range) = Size(target_range)
            /\ amount[1] = 0 => r.target_range = target_range
            /\ (amount[1] < 0 /\ target_range[1] = available_time[1]) =>
                   r.target_range = target_range
            /\ (amount[1] > 0 /\ target_range[2] = available_time[2]) =>
                   r.target_range = target_range
            /\ r.cur_range = cur_range
            /\ r.available_time = available_time

\* a pan was stopped by the right boundary, ahead of the view, with the
\* size of the range kept
C34_Witness ==
    /\ last_operation = "Pan"
    /\ target_range[2] = available_time[2]
    /\ target_range[1] > available_time[1]
    /\ target_range # cur_range
    /\ Size(target_range) = Size(cur_range)

(***************************************************************************)
(* C35: after zoom(factor, center), for any factor > 0 and any center      *)
(* inside the current range, the target range lies inside available_time   *)
(* and its size is at least min_zoom and at most max_zoom; zoom never      *)
(* changes cur_range, and when the previous operation was a pan it first   *)
(* resets the target range to cur_range (abandoning the pan) and then      *)
(* records Zoom as the last operation.                                     *)
(***************************************************************************)
C35_ZoomKeepsLimits ==
    \A factor \in ZoomFactors, center \in Centers :
        \A r \in {zoom(ZoomSelf, factor, center)} :
            /\ Inside(r.target_range, available_time)
            /\ min_zoom <= Size(r.target_range)
            /\ Size(r.target_range) <= max_zoom
            /\ r.cur_range = cur_range
            /\ r.available_time = available_time
            /\ r.last_operation = "Zoom"
            /\ last_operation = "Pan" =>
                   /\ r = zoom([ZoomSelf EXCEPT !.target_range = cur_range,
                                                !.last_operation = "Zoom"], factor, center)
                   /\ factor[1] < factor[2] => Inside(r.target_range, cur_range)

\* a zoom out was limited by max_zoom while the view had not followed
C35_Witness ==
    /\ last_operation = "Zoom"
    /\ Size(target_range) = max_zoom
    /\ Size(available_time) > max_zoom
    /\ cur_range # target_range


(***************************************************************************)
(* The two threads and the lock of the store.                              *)
(***************************************************************************)
\* the UI thread is inside new_selection, under its read guard
InExport == ui \in {"select", "hanging", "walk", "incomplete", "finish", "return"}

\* C31: the store is accessed under reader/writer exclusion.  The write
\* guard is never held together with a read guard; the log, the notes, the
\* ranges, the transport and the bars change only in a step of the
\* ingestion thread that holds the write guard while no read guard is held;
\* during one export the store stays the one the export found on entry; and
\* the file an export writes is the one built from that store in one piece.
C31_StoreUnderReaderWriterExclusion ==
    /\ [](~(writer /\ readers > 0))
    /\ [][(Self' # Self \/ <<transport, last_bar, bars>>' # <<transport, last_bar, bars>>)
              => (ingest = "writing" /\ writer /\ readers = 0)]_vars
    /\ [](InExport => (readers = 2 /\ seen = Some(Self)))
    /\ []((ui = "return" /\ outcome = "Copied path to clipboard")
              => midifile[1].smf = build_smf(seen[1], selection[1][1], selection[1][2],
                                             transport.tempo))

\* an export has written its file while the ingestion thread, with a
\* message for the store in hand, waits for the write guard
C31_Witness ==
    /\ ui = "return"
    /\ outcome = "Copied path to clipboard"
    /\ ingest = "write_wait"
    /\ msg[1].kind = "MidiData"
    /\ Len(midifile[1].smf.tracks[1]) > 1

\* C32: no failure stops the ingestion path or makes the store unusable:
\* the ingestion thread is never dead, the lock of the store is never
\* poisoned, and no reader fails to acquire the store.
C32_FailuresLeaveIngestionRunning ==
    /\ ingest # "panicked"
    /\ ~poisoned
    /\ ui # "panicked"

\* C33: the UI thread and the ingestion thread never wait on the lock of
\* the store for each other: no state has the ingestion thread waiting for
\* the write guard behind a read guard of the UI thread while the UI thread
\* waits for another read guard behind the ingestion thread.
C33_ExportNeverWaitsForever ==
    ~(/\ ui = "export_read"
      /\ ui_parked
      /\ readers = 1
      /\ ingest = "write_wait")

====
